---- MODULE Spec2Model ----
(***************************************************************************)
(* Kerala Ayurveda RAG system: the article-generation workflow             *)
(* (outline -> writer -> fact-check -> tone), its parsers and guardrails.  *)
(*                                                                         *)
(* A Python str is a sequence of one-character strings; the bullet         *)
(* character U+2022 is written "BULLET".  The language model and the       *)
(* vector store are external: every answer they can give is an input      *)
(* chosen with \E from a bounded set.                                      *)
(***************************************************************************)
EXTENDS Integers, Sequences, FiniteSets, TLC

(***************************************************************************)
(* Bounds of the model                                                     *)
(***************************************************************************)
\* longest claim list handed to verify_draft
MaxClaims == 3
\* most fragments a model response is assembled from
MaxFrags == 3
\* longest passage content drawn for a retrieved document
MaxContentLen == 152
\* longest document list handed to prepare_context_with_markers
MaxDocs == 3

(***************************************************************************)
(* Python str operations                                                   *)
(***************************************************************************)
UpperLetters ==
    <<"A", "B", "C", "D", "E", "F", "G", "H", "I", "J", "K", "L", "M",
      "N", "O", "P", "Q", "R", "S", "T", "U", "V", "W", "X", "Y", "Z">>
LowerLetters ==
    <<"a", "b", "c", "d", "e", "f", "g", "h", "i", "j", "k", "l", "m",
      "n", "o", "p", "q", "r", "s", "t", "u", "v", "w", "x", "y", "z">>
Whitespace == {" ", "\n", "\t"}

Min(a, b) == IF a < b THEN a ELSE b

\* str.lower() on one character
ToLower ==
    [c \in {UpperLetters[i] : i \in 1..26} |->
        LowerLetters[CHOOSE i \in 1..26 : UpperLetters[i] = c]]
lower_char(c) == IF c \in DOMAIN ToLower THEN ToLower[c] ELSE c
\* str.upper() on one character
ToUpper ==
    [c \in {LowerLetters[i] : i \in 1..26} |->
        UpperLetters[CHOOSE i \in 1..26 : LowerLetters[i] = c]]
upper_char(c) == IF c \in DOMAIN ToUpper THEN ToUpper[c] ELSE c
\* s.lower()
lower(s) == [i \in 1..Len(s) |-> lower_char(s[i])]
\* s.upper()
upper(s) == [i \in 1..Len(s) |-> upper_char(s[i])]

\* sub occurs in s at 1-based position i
occurs_at(s, sub, i) ==
    /\ i >= 1
    /\ i + Len(sub) - 1 <= Len(s)
    /\ \A j \in 1..Len(sub) : s[i + j - 1] = sub[j]
\* `sub in s`
contains(s, sub) == \E i \in 1..(Len(s) - Len(sub) + 1) : occurs_at(s, sub, i)
\* s.find(sub) + 1: the first position of sub in s, 0 when absent
find(s, sub) ==
    LET hits == {i \in 1..(Len(s) - Len(sub) + 1) : occurs_at(s, sub, i)}
    IN  IF hits = {} THEN 0 ELSE CHOOSE i \in hits : \A k \in hits : i <= k
\* s.startswith(prefix)
startswith(s, prefix) == occurs_at(s, prefix, 1)
\* s[:n]
slice_to(s, n) == SubSeq(s, 1, Min(n, Len(s)))
\* s[n:] for a 0-based n
slice_from(s, n) == SubSeq(s, n + 1, Len(s))

\* s.split(sep) for a non-empty sep
RECURSIVE split(_, _)
split(s, sep) ==
    LET i == find(s, sep)
    IN  IF i = 0
        THEN <<s>>
        ELSE <<SubSeq(s, 1, i - 1)>> \o split(slice_from(s, i - 1 + Len(sep)), sep)

\* s.lstrip(chars)
RECURSIVE lstrip_chars(_, _)
lstrip_chars(s, chars) ==
    IF s /= <<>> /\ Head(s) \in chars THEN lstrip_chars(Tail(s), chars) ELSE s
\* s.rstrip(chars)
RECURSIVE rstrip_chars(_, _)
rstrip_chars(s, chars) ==
    IF s /= <<>> /\ s[Len(s)] \in chars
    THEN rstrip_chars(SubSeq(s, 1, Len(s) - 1), chars)
    ELSE s
\* s.strip()
strip(s) == rstrip_chars(lstrip_chars(s, Whitespace), Whitespace)

\* "".join(parts)
RECURSIVE concat(_)
concat(parts) == IF parts = <<>> THEN <<>> ELSE Head(parts) \o concat(Tail(parts))
\* sep.join(parts)
RECURSIVE join(_, _)
join(sep, parts) ==
    IF parts = <<>> THEN <<>>
    ELSE IF Len(parts) = 1 THEN parts[1]
    ELSE parts[1] \o sep \o join(sep, Tail(parts))

Digits == <<"0", "1", "2", "3", "4", "5", "6", "7", "8", "9">>
\* str(n) for n >= 0
RECURSIVE str_int(_)
str_int(n) == IF n < 10 THEN <<Digits[n + 1]>> ELSE str_int(n \div 10) \o <<Digits[(n % 10) + 1]>>

\* None of an Optional field, and a str held where None may be held
None == [is_none |-> TRUE]
Str(s) == [str |-> s]

(***************************************************************************)
(* String literals of the program                                          *)
(***************************************************************************)
TOK_SUPPORTED == <<"S", "U", "P", "P", "O", "R", "T", "E", "D">>
TOK_NOT_SUPPORTED == <<"N", "O", "T", "_", "S", "U", "P", "P", "O", "R", "T", "E", "D">>
TOK_PARTIALLY_SUPPORTED == <<"P", "A", "R", "T", "I", "A", "L", "L", "Y", "_", "S", "U", "P", "P", "O", "R", "T", "E", "D">>
MARK_EXPLANATION == <<"E", "X", "P", "L", "A", "N", "A", "T", "I", "O", "N", ":">>
NO_SOURCE_FOUND ==
    <<"N", "o", " ", "r", "e", "l", "e", "v", "a", "n", "t", " ", "s", "o", "u", "r", "c", "e",
      " ", "m", "a", "t", "e", "r", "i", "a", "l", " ", "f", "o", "u", "n", "d">>
ELLIPSIS == <<".", ".", ".">>
MARK_EDITED_DRAFT == <<"E", "D", "I", "T", "E", "D", "_", "D", "R", "A", "F", "T", ":">>
MARK_TONE_SUGGESTIONS == <<"T", "O", "N", "E", "_", "S", "U", "G", "G", "E", "S", "T", "I", "O", "N", "S", ":">>
MARK_SAFETY_STATUS ==
    <<"S", "A", "F", "E", "T", "Y", "_", "D", "I", "S", "C", "L", "A", "I", "M", "E", "R", "_",
      "S", "T", "A", "T", "U", "S", ":">>
STATUS_UNKNOWN == <<"U", "N", "K", "N", "O", "W", "N">>
STATUS_MISSING == <<"M", "I", "S", "S", "I", "N", "G">>
STATUS_PRESENT == <<"P", "R", "E", "S", "E", "N", "T">>
\* prohibited_phrases of check_guardrails, in source order
PHRASE_MIRACLE_CURE == <<"m", "i", "r", "a", "c", "l", "e", " ", "c", "u", "r", "e">>
PHRASE_GUARANTEED == <<"g", "u", "a", "r", "a", "n", "t", "e", "e", "d">>
PHRASE_CURES == <<"c", "u", "r", "e", "s">>
PHRASE_100_SAFE == <<"1", "0", "0", "%", " ", "s", "a", "f", "e">>
PHRASE_SCIENTIFICALLY_PROVEN ==
    <<"s", "c", "i", "e", "n", "t", "i", "f", "i", "c", "a", "l", "l", "y", " ", "p", "r", "o",
      "v", "e", "n">>
prohibited_phrases ==
    <<PHRASE_MIRACLE_CURE, PHRASE_GUARANTEED, PHRASE_CURES,
      PHRASE_100_SAFE, PHRASE_SCIENTIFICALLY_PROVEN>>

\* the disclaimer literal of _add_safety_disclaimer
disclaimer ==
    <<"\n", "\n", "-", "-", "-", "\n", "\n", "*", "*", "I", "m", "p", "o", "r", "t", "a", "n", "t",
      " ", "N", "o", "t", "e", ":", "*", "*", "\n", "T", "h", "i", "s", " ", "a", "r", "t", "i",
      "c", "l", "e", " ", "i", "s", " ", "f", "o", "r", " ", "i", "n", "f", "o", "r", "m", "a",
      "t", "i", "o", "n", "a", "l", " ", "p", "u", "r", "p", "o", "s", "e", "s", " ", "a", "n",
      "d", " ", "i", "s", " ", "n", "o", "t", " ", "a", " ", "s", "u", "b", "s", "t", "i", "t",
      "u", "t", "e", " ", "f", "o", "r", " ", "m", "e", "d", "i", "c", "a", "l", " ", "a", "d",
      "v", "i", "c", "e", ",", " ", "d", "i", "a", "g", "n", "o", "s", "i", "s", ",", " ", "o",
      "r", " ", "t", "r", "e", "a", "t", "m", "e", "n", "t", ".", " ", "A", "y", "u", "r", "v",
      "e", "d", "i", "c", " ", "h", "e", "r", "b", "s", " ", "a", "n", "d", " ", "t", "h", "e",
      "r", "a", "p", "i", "e", "s", " ", "m", "a", "y", " ", "n", "o", "t", " ", "b", "e", " ",
      "s", "u", "i", "t", "a", "b", "l", "e", " ", "f", "o", "r", " ", "e", "v", "e", "r", "y",
      "o", "n", "e", ".", " ", "I", "n", "d", "i", "v", "i", "d", "u", "a", "l", "s", " ", "w",
      "i", "t", "h", " ", "e", "x", "i", "s", "t", "i", "n", "g", " ", "m", "e", "d", "i", "c",
      "a", "l", " ", "c", "o", "n", "d", "i", "t", "i", "o", "n", "s", ",", " ", "t", "h", "o",
      "s", "e", " ", "w", "h", "o", " ", "a", "r", "e", " ", "p", "r", "e", "g", "n", "a", "n",
      "t", " ", "o", "r", " ", "n", "u", "r", "s", "i", "n", "g", ",", " ", "o", "r", " ", "a",
      "n", "y", "o", "n", "e", " ", "t", "a", "k", "i", "n", "g", " ", "p", "r", "e", "s", "c",
      "r", "i", "p", "t", "i", "o", "n", " ", "m", "e", "d", "i", "c", "a", "t", "i", "o", "n",
      "s", " ", "s", "h", "o", "u", "l", "d", " ", "c", "o", "n", "s", "u", "l", "t", " ", "t",
      "h", "e", "i", "r", " ", "h", "e", "a", "l", "t", "h", "c", "a", "r", "e", " ", "p", "r",
      "o", "v", "i", "d", "e", "r", " ", "b", "e", "f", "o", "r", "e", " ", "s", "t", "a", "r",
      "t", "i", "n", "g", " ", "a", "n", "y", " ", "n", "e", "w", " ", "s", "u", "p", "p", "l",
      "e", "m", "e", "n", "t", " ", "o", "r", " ", "t", "h", "e", "r", "a", "p", "y", ".", " ",
      "K", "e", "r", "a", "l", "a", " ", "A", "y", "u", "r", "v", "e", "d", "a", " ", "e", "n",
      "c", "o", "u", "r", "a", "g", "e", "s", " ", "y", "o", "u", " ", "t", "o", " ", "w", "o",
      "r", "k", " ", "w", "i", "t", "h", " ", "q", "u", "a", "l", "i", "f", "i", "e", "d", " ",
      "p", "r", "a", "c", "t", "i", "t", "i", "o", "n", "e", "r", "s", " ", "f", "o", "r", " ",
      "p", "e", "r", "s", "o", "n", "a", "l", "i", "z", "e", "d", " ", "g", "u", "i", "d", "a",
      "n", "c", "e", ".">>

(***************************************************************************)
(* Program constants                                                       *)
(***************************************************************************)
\* page_content[:150] in _verify_single_claim and prepare_context_with_markers
ExcerptLen == 150
\* len(flagged_claims) > 2 in check_guardrails
MaxFlagged == 2
\* retrieve(claim, k=3) in _verify_single_claim
FactCheckK == 3

(***************************************************************************)
(* rag/citation_tracker.py and the Document type                           *)
(***************************************************************************)
\* doc.metadata.get(key, default)
metadata_get(metadata, key, default) ==
    IF key \in DOMAIN metadata THEN metadata[key] ELSE default

\* Citation(doc_id=..., section_id=..., excerpt=...)
Citation(doc_id, section_id, excerpt) ==
    [doc_id |-> doc_id, section_id |-> section_id, excerpt |-> excerpt]

\* as tracker_excerpt, but truncating from 150 characters on (`>=` for `>`)
tracker_excerpt_from_limit(page_content) ==
    IF Len(page_content) >= ExcerptLen
    THEN slice_to(page_content, ExcerptLen) \o ELLIPSIS
    ELSE page_content

\* page_content[:150] + "..." if len(page_content) > 150 else page_content
tracker_excerpt(page_content) ==
    IF Len(page_content) > ExcerptLen
    THEN slice_to(page_content, ExcerptLen) \o ELLIPSIS
    ELSE page_content

\* f"[SOURCE_{i+1}]" for the 0-based index i
source_marker(i) == <<"[", "S", "O", "U", "R", "C", "E", "_">> \o str_int(i + 1) \o <<"]">>

\* CitationTracker.prepare_context_with_markers: (context_string, citations)
prepare_context_with_markers(documents) ==
    LET citations ==
            [i \in 1..Len(documents) |->
                Citation(metadata_get(documents[i].metadata, "doc_id", "unknown"),
                         metadata_get(documents[i].metadata, "section_id", "unknown"),
                         tracker_excerpt(documents[i].page_content))]
        context_parts ==
            [i \in 1..Len(documents) |->
                source_marker(i - 1) \o <<"\n">> \o documents[i].page_content \o <<"\n">>]
    IN  <<join(<<"\n", "-", "-", "-", "\n">>, context_parts), citations>>

(***************************************************************************)
(* agents/fact_checker_agent.py                                            *)
(***************************************************************************)
FactCheckResult(claim, is_supported, citation, explanation) ==
    [claim |-> claim, is_supported |-> is_supported,
     citation |-> citation, explanation |-> explanation]

\* as parse_fact_check_response, but matching the verdict without upper()
parse_fact_check_response_cased(response) ==
    LET is_supported ==
            IF contains(response, TOK_SUPPORTED) /\ ~contains(response, TOK_NOT_SUPPORTED)
            THEN TRUE
            ELSE IF contains(response, TOK_PARTIALLY_SUPPORTED)
            THEN TRUE
            ELSE FALSE
        explanation ==
            IF contains(response, MARK_EXPLANATION)
            THEN LET pieces == split(response, MARK_EXPLANATION)
                 IN  strip(pieces[Len(pieces)])
            ELSE response
    IN  <<is_supported, explanation>>

\* FactCheckerAgent._parse_fact_check_response: (is_supported, explanation)
parse_fact_check_response(response) ==
    LET response_upper == upper(response)
        is_supported ==
            IF contains(response_upper, TOK_SUPPORTED)
               /\ ~contains(response_upper, TOK_NOT_SUPPORTED)
            THEN TRUE
            ELSE IF contains(response_upper, TOK_PARTIALLY_SUPPORTED)
            THEN TRUE
            ELSE FALSE
        explanation ==
            IF contains(response, MARK_EXPLANATION)
            THEN LET pieces == split(response, MARK_EXPLANATION)
                 IN  strip(pieces[Len(pieces)])
            ELSE response
    IN  <<is_supported, explanation>>

\* the excerpt of the citation built in _verify_single_claim
fact_check_excerpt(page_content) == slice_to(page_content, ExcerptLen) \o ELLIPSIS

\* as no_source_result, but reporting the claim as supported
no_source_result_supported(claim) == FactCheckResult(claim, TRUE, None, NO_SOURCE_FOUND)

\* the early return of _verify_single_claim when `not docs`
no_source_result(claim) == FactCheckResult(claim, FALSE, None, NO_SOURCE_FOUND)

\* as claim_citation, but citing the last retrieved passage (docs[-1] for docs[0])
claim_citation_last(is_supported, docs) ==
    IF is_supported /\ docs /= <<>>
    THEN Citation(metadata_get(docs[Len(docs)].metadata, "doc_id", "unknown"),
                  metadata_get(docs[Len(docs)].metadata, "section_id", "unknown"),
                  fact_check_excerpt(docs[Len(docs)].page_content))
    ELSE None

\* the citation of _verify_single_claim: `if is_supported and docs`
claim_citation(is_supported, docs) ==
    IF is_supported /\ docs /= <<>>
    THEN Citation(metadata_get(docs[1].metadata, "doc_id", "unknown"),
                  metadata_get(docs[1].metadata, "section_id", "unknown"),
                  fact_check_excerpt(docs[1].page_content))
    ELSE None

\* _verify_single_claim after a non-empty retrieval and the model's response
classified_result(claim, docs, response) ==
    LET parsed == parse_fact_check_response(response)
    IN  FactCheckResult(claim, parsed[1], claim_citation(parsed[1], docs), parsed[2])

\* context = "\n\n".join(doc.page_content for doc in docs)
fact_check_context(docs) ==
    join(<<"\n", "\n">>, [i \in 1..Len(docs) |-> docs[i].page_content])

\* as add_citations_to_draft, but appending a marker for each cited result
add_citations_to_draft_appending(draft, results) ==
    IF \E i \in 1..Len(results) : results[i].citation /= None
    THEN draft \o <<" ", "[", "1", "]">>
    ELSE draft
\* FactCheckerAgent._add_citations_to_draft
add_citations_to_draft(draft, results) == draft

\* as too_many_flagged, but failing from 2 flagged claims on (`>=` for `>`)
too_many_flagged_from_limit(flagged_claims) == Len(flagged_claims) >= MaxFlagged

\* `len(flagged_claims) > 2`
too_many_flagged(flagged_claims) == Len(flagged_claims) > MaxFlagged

\* FactCheckerAgent.check_guardrails
check_guardrails(draft, flagged_claims) ==
    LET too_many ==
            IF too_many_flagged(flagged_claims)
            THEN <<[issue |-> "Too many unsupported claims", count |-> Len(flagged_claims)]>>
            ELSE <<>>
        found(phrase) == contains(lower(draft), lower(phrase))
        phrase_issues ==
            [i \in 1..Len(SelectSeq(prohibited_phrases, found)) |->
                [issue |-> "Prohibited phrase found",
                 phrase |-> SelectSeq(prohibited_phrases, found)[i]]]
        issues == too_many \o phrase_issues
    IN  [passed |-> Len(issues) = 0, issues |-> issues]

(***************************************************************************)
(* agents/tone_editor_agent.py                                             *)
(***************************************************************************)
ToneEditorOutput(final_draft, tone_suggestions, safety_disclaimer_added) ==
    [final_draft |-> final_draft, tone_suggestions |-> tone_suggestions,
     safety_disclaimer_added |-> safety_disclaimer_added]

BulletChars == {"-", "BULLET"}

\* the bullet lines of the suggestions section
parse_bullets(section) ==
    LET lines == split(section, <<"\n">>)
        stripped == [i \in 1..Len(lines) |-> strip(lines[i])]
        is_bullet(line) == startswith(line, <<"-">>) \/ startswith(line, <<"BULLET">>)
        bullets == SelectSeq(stripped, is_bullet)
    IN  [i \in 1..Len(bullets) |-> strip(lstrip_chars(bullets[i], BulletChars))]

\* ToneEditorAgent._parse_editor_response: (edited_draft, suggestions, disclaimer_status)
parse_editor_response(response, original_draft) ==
    LET edited_draft ==
            IF contains(response, MARK_EDITED_DRAFT)
            THEN LET draft_section == split(response, MARK_EDITED_DRAFT)[2]
                 IN  IF contains(draft_section, MARK_TONE_SUGGESTIONS)
                     THEN strip(split(draft_section, MARK_TONE_SUGGESTIONS)[1])
                     ELSE strip(draft_section)
            ELSE original_draft
        suggestions ==
            IF contains(response, MARK_TONE_SUGGESTIONS)
            THEN LET section == split(response, MARK_TONE_SUGGESTIONS)[2]
                     suggestions_section ==
                         IF contains(section, MARK_SAFETY_STATUS)
                         THEN split(section, MARK_SAFETY_STATUS)[1]
                         ELSE section
                 IN  parse_bullets(suggestions_section)
            ELSE <<>>
        disclaimer_status ==
            IF contains(response, MARK_SAFETY_STATUS)
            THEN strip(split(split(response, MARK_SAFETY_STATUS)[2], <<"\n">>)[1])
            ELSE STATUS_UNKNOWN
    IN  <<edited_draft, suggestions, disclaimer_status>>

\* as _add_safety_disclaimer, but putting the disclaimer in front of the draft
add_safety_disclaimer_in_front(draft) == disclaimer \o draft
\* ToneEditorAgent._add_safety_disclaimer
add_safety_disclaimer(draft) == draft \o disclaimer

\* as edit_for_tone, but looking for MISSING and PRESENT in the whole response
edit_for_tone_whole_response(draft, response) ==
    LET parsed == parse_editor_response(response, draft)
    IN  IF contains(response, STATUS_MISSING)
        THEN ToneEditorOutput(add_safety_disclaimer(parsed[1]), parsed[2], TRUE)
        ELSE ToneEditorOutput(parsed[1], parsed[2], contains(response, STATUS_PRESENT))

\* ToneEditorAgent.edit_for_tone, given the model's response
edit_for_tone(draft, response) ==
    LET parsed == parse_editor_response(response, draft)
        final_draft == parsed[1]
        suggestions == parsed[2]
        disclaimer_status == parsed[3]
    IN  IF contains(disclaimer_status, STATUS_MISSING)
        THEN ToneEditorOutput(add_safety_disclaimer(final_draft), suggestions, TRUE)
        ELSE ToneEditorOutput(final_draft, suggestions,
                              contains(disclaimer_status, STATUS_PRESENT))

(***************************************************************************)
(* agents/writer_agent.py                                                  *)
(***************************************************************************)
\* claims[:10] in _extract_claims
ClaimLimit == 10

IND_TRADITIONALLY_USED == <<"t", "r", "a", "d", "i", "t", "i", "o", "n", "a", "l", "l", "y", " ", "u", "s", "e", "d">>
IND_HELPS == <<"h", "e", "l", "p", "s">>
IND_SUPPORTS == <<"s", "u", "p", "p", "o", "r", "t", "s">>
IND_MAY == <<"m", "a", "y">>
IND_CONTAINS == <<"c", "o", "n", "t", "a", "i", "n", "s">>
IND_KNOWN_FOR == <<"k", "n", "o", "w", "n", " ", "f", "o", "r">>
IND_BENEFITS_INCLUDE == <<"b", "e", "n", "e", "f", "i", "t", "s", " ", "i", "n", "c", "l", "u", "d", "e">>
IND_USED_IN_AYURVEDA_FOR ==
    <<"u", "s", "e", "d", " ", "i", "n", " ", "A", "y", "u", "r", "v", "e", "d", "a", " ", "f",
      "o", "r">>
\* claim_indicators of _extract_claims, in source order
claim_indicators ==
    <<IND_TRADITIONALLY_USED, IND_HELPS, IND_SUPPORTS, IND_MAY,
      IND_CONTAINS, IND_KNOWN_FOR, IND_BENEFITS_INCLUDE, IND_USED_IN_AYURVEDA_FOR>>

WriterOutput(draft, claims) == [draft |-> draft, claims |-> claims]

\* as the test of the inner loop, but on the sentence as written
has_indicator_as_written(sentence) ==
    \E i \in 1..Len(claim_indicators) :
        contains(sentence, lower(claim_indicators[i]))
\* the test of the inner loop: some indicator occurs in the sentence
has_indicator(sentence) ==
    \E i \in 1..Len(claim_indicators) :
        contains(lower(sentence), lower(claim_indicators[i]))

\* WriterAgent._extract_claims
extract_claims(draft) ==
    LET sentences == split(draft, <<".">>)
        stripped == [i \in 1..Len(sentences) |-> strip(sentences[i])]
        keep(sentence) == sentence /= <<>> /\ has_indicator(sentence)
        kept == SelectSeq(stripped, keep)
        claims == [i \in 1..Len(kept) |-> kept[i] \o <<".">>]
    IN  slice_to(claims, ClaimLimit)

(***************************************************************************)
(* agents/outline_agent.py                                                 *)
(***************************************************************************)
MARK_SECTION == <<"S", "E", "C", "T", "I", "O", "N", ":">>
MARK_KEY_TOPICS == <<"K", "E", "Y", "_", "T", "O", "P", "I", "C", "S", ":">>

OutlineSection(heading, key_points) == [heading |-> heading, key_points |-> key_points]
OutlineOutput(outline, key_topics) == [outline |-> outline, key_topics |-> key_topics]

\* s.replace(old, "")
remove_all(s, old) == concat(split(s, old))

\* truth value of `current_section`: None and "" are both false
section_open(current_section) == current_section /= None /\ current_section /= Str(<<>>)

\* the parser's locals before the first line
outline_start ==
    [sections |-> <<>>, key_topics |-> <<>>, current_section |-> None, current_points |-> <<>>]

\* `if current_section: sections.append(OutlineSection(...))`
save_section(st) ==
    IF section_open(st.current_section)
    THEN Append(st.sections, OutlineSection(st.current_section.str, st.current_points))
    ELSE st.sections

\* as the loop body of _parse_outline, but a SECTION: line keeps the points
\* collected so far
outline_line_keeping_points(st, raw) ==
    LET line == strip(raw)
    IN  IF startswith(line, MARK_SECTION)
        THEN [st EXCEPT !.sections = save_section(st),
                        !.current_section = Str(strip(remove_all(line, MARK_SECTION)))]
        ELSE IF startswith(line, <<"-">>) \/ startswith(line, <<"BULLET">>)
        THEN [st EXCEPT !.current_points =
                            Append(st.current_points, strip(lstrip_chars(line, BulletChars)))]
        ELSE IF startswith(line, MARK_KEY_TOPICS)
        THEN LET topics == split(strip(remove_all(line, MARK_KEY_TOPICS)), <<",">>)
             IN  [st EXCEPT !.key_topics = [i \in 1..Len(topics) |-> strip(topics[i])]]
        ELSE st
\* as the loop body of _parse_outline, but a line with no recognised prefix
\* ends the current section
outline_line_closing_section(st, raw) ==
    LET line == strip(raw)
    IN  IF line = <<>> THEN st
        ELSE IF startswith(line, MARK_SECTION)
        THEN [st EXCEPT !.sections = save_section(st),
                        !.current_section = Str(strip(remove_all(line, MARK_SECTION))),
                        !.current_points = <<>>]
        ELSE IF startswith(line, MARK_KEY_TOPICS)
        THEN LET topics == split(strip(remove_all(line, MARK_KEY_TOPICS)), <<",">>)
             IN  [st EXCEPT !.key_topics = [i \in 1..Len(topics) |-> strip(topics[i])]]
        ELSE IF startswith(line, <<"-">>) \/ startswith(line, <<"BULLET">>)
        THEN LET point == strip(lstrip_chars(line, BulletChars))
             IN  IF point /= <<>>
                 THEN [st EXCEPT !.current_points = Append(st.current_points, point)]
                 ELSE st
        ELSE [st EXCEPT !.sections = save_section(st),
                        !.current_section = None,
                        !.current_points = <<>>]
\* one iteration of the loop of _parse_outline over a raw line
outline_line(st, raw) ==
    LET line == strip(raw)
    IN  IF line = <<>> THEN st
        ELSE IF startswith(line, MARK_SECTION)
        THEN [st EXCEPT !.sections = save_section(st),
                        !.current_section = Str(strip(remove_all(line, MARK_SECTION))),
                        !.current_points = <<>>]
        ELSE IF startswith(line, MARK_KEY_TOPICS)
        THEN LET topics_str == strip(remove_all(line, MARK_KEY_TOPICS))
                 topics == split(topics_str, <<",">>)
             IN  [st EXCEPT !.key_topics = [i \in 1..Len(topics) |-> strip(topics[i])]]
        ELSE IF startswith(line, <<"-">>) \/ startswith(line, <<"BULLET">>)
        THEN LET point == strip(lstrip_chars(line, BulletChars))
             IN  IF point /= <<>>
                 THEN [st EXCEPT !.current_points = Append(st.current_points, point)]
                 ELSE st
        ELSE st

\* the loop of _parse_outline
RECURSIVE outline_lines(_, _)
outline_lines(st, lines) ==
    IF lines = <<>> THEN st ELSE outline_lines(outline_line(st, Head(lines)), Tail(lines))

\* OutlineAgent._parse_outline: (sections, key_topics)
parse_outline(response) ==
    LET st == outline_lines(outline_start, split(response, <<"\n">>))
    IN  <<save_section(st), st.key_topics>>

\* OutlineAgent.create_outline, given the model's response
create_outline(response) ==
    LET parsed == parse_outline(response) IN OutlineOutput(parsed[1], parsed[2])

(***************************************************************************)
(* Inputs: what the language model, the vector store and the callers can   *)
(* supply, assembled from fragments that make the parsers' cases happen    *)
(***************************************************************************)
\* every sequence over S of length at most n
SeqsUpTo(S, n) == UNION {[1..k -> S] : k \in 0..n}
\* every string assembled from at most n of the fragments
Assembled(fragments, n) == {concat(fs) : fs \in SeqsUpTo(fragments, n)}

\* fragments of drafts handed to check_guardrails
DraftMiracleCure == <<"M", "i", "r", "a", "c", "l", "e", " ", "C", "u", "r", "e">>
DraftGuaranteed == <<"G", "U", "A", "R", "A", "N", "T", "E", "E", "D">>
DraftCure == <<"c", "u", "r", "e">>
DraftS == <<"s">>
Draft100 == <<"1", "0", "0", "%", " ">>
DraftSafe == <<"s", "a", "f", "e">>
DraftProven ==
    <<"S", "c", "i", "e", "n", "t", "i", "f", "i", "c", "a", "l", "l", "y", " ", "p", "r", "o",
      "v", "e", "n">>
DraftSpace == <<" ">>
DraftTulsi == <<"T", "u", "l", "s", "i", " ", "t", "e", "a">>
GuardrailFragments ==
    {DraftMiracleCure, DraftGuaranteed, DraftCure, DraftS, Draft100, DraftSafe,
     DraftProven, DraftSpace, DraftTulsi}

\* fragments of classification responses
RespSupported == <<"S", "U", "P", "P", "O", "R", "T", "E", "D">>
RespSupportedLower == <<"s", "u", "p", "p", "o", "r", "t", "e", "d">>
RespNot == <<"N", "O", "T", "_">>
RespPartially == <<"P", "A", "R", "T", "I", "A", "L", "L", "Y", "_">>
RespPartiallySpace == <<"p", "a", "r", "t", "i", "a", "l", "l", "y", " ">>
RespNotSupportedMixed == <<"N", "o", "t", "_", "S", "u", "p", "p", "o", "r", "t", "e", "d">>
RespVerdict == <<"V", "E", "R", "D", "I", "C", "T", ":", " ">>
RespExplanation == <<"\n", "E", "X", "P", "L", "A", "N", "A", "T", "I", "O", "N", ":", " ">>
RespOk == <<"o", "k">>
VerdictFragments ==
    {RespSupported, RespSupportedLower, RespNot, RespPartially, RespPartiallySpace,
     RespNotSupportedMixed, RespVerdict, RespExplanation, RespOk}

\* fragments of tone-editor responses
ToneEdited ==
    <<"E", "D", "I", "T", "E", "D", "_", "D", "R", "A", "F", "T", ":", "\n", "N", "e", "w", " ",
      "t", "e", "x", "t", "\n">>
ToneEditedBare == <<"E", "D", "I", "T", "E", "D", "_", "D", "R", "A", "F", "T", ":">>
ToneEditedBlank == <<"E", "D", "I", "T", "E", "D", "_", "D", "R", "A", "F", "T", ":", " ", "\n">>
ToneSuggestions ==
    <<"T", "O", "N", "E", "_", "S", "U", "G", "G", "E", "S", "T", "I", "O", "N", "S", ":", "\n",
      "-", " ", "b", "e", " ", "w", "a", "r", "m", "\n", "BULLET", " ", "c", "i", "t", "e", "\n">>
ToneSuggestionsBare == <<"T", "O", "N", "E", "_", "S", "U", "G", "G", "E", "S", "T", "I", "O", "N", "S", ":">>
ToneStatusMissing ==
    <<"S", "A", "F", "E", "T", "Y", "_", "D", "I", "S", "C", "L", "A", "I", "M", "E", "R", "_",
      "S", "T", "A", "T", "U", "S", ":", " ", "M", "I", "S", "S", "I", "N", "G", "\n">>
ToneStatusPresent ==
    <<"S", "A", "F", "E", "T", "Y", "_", "D", "I", "S", "C", "L", "A", "I", "M", "E", "R", "_",
      "S", "T", "A", "T", "U", "S", ":", " ", "P", "R", "E", "S", "E", "N", "T">>
ToneStatusNeeds ==
    <<"S", "A", "F", "E", "T", "Y", "_", "D", "I", "S", "C", "L", "A", "I", "M", "E", "R", "_",
      "S", "T", "A", "T", "U", "S", ":", " ", "N", "E", "E", "D", "S", "_", "I", "M", "P", "R",
      "O", "V", "E", "M", "E", "N", "T">>
ToneMissingWord == <<"M", "I", "S", "S", "I", "N", "G">>
ToneLowerMarker == <<"e", "d", "i", "t", "e", "d", "_", "d", "r", "a", "f", "t", ":", " ", "x">>
ToneBullet == <<"\n", "-", " ", "t", "e", "x", "t">>
ToneFragments ==
    {ToneEdited, ToneEditedBare, ToneEditedBlank, ToneSuggestions, ToneSuggestionsBare,
     ToneStatusMissing, ToneStatusPresent, ToneStatusNeeds, ToneMissingWord,
     ToneLowerMarker, ToneBullet}

\* outline responses of the workflow run
OutlineWellFormed ==
    <<"S", "E", "C", "T", "I", "O", "N", ":", " ", "I", "n", "t", "r", "o", "\n", "-", " ", "w",
      "h", "a", "t", " ", "i", "t", " ", "i", "s", "\n", "-", " ", "h", "i", "s", "t", "o", "r",
      "y", "\n", "S", "E", "C", "T", "I", "O", "N", ":", " ", "U", "s", "e", "\n", "BULLET", " ",
      "d", "o", "s", "e", "\n", "K", "E", "Y", "_", "T", "O", "P", "I", "C", "S", ":", " ", "t",
      "u", "l", "s", "i", ",", " ", "t", "e", "a">>
OutlineEmptyHeading ==
    <<"S", "E", "C", "T", "I", "O", "N", ":", "\n", "-", " ", "o", "r", "p", "h", "a", "n", "\n",
      "K", "E", "Y", "_", "T", "O", "P", "I", "C", "S", ":">>
OutlineResponses ==
    {OutlineWellFormed, OutlineEmptyHeading}

\* writer drafts of the workflow run
DraftNoClaims ==
    <<"T", "u", "l", "s", "i", " ", "i", "s", " ", "a", " ", "h", "e", "r", "b", ".", " ", "I",
      "t", " ", "g", "r", "o", "w", "s", " ", "w", "e", "l", "l">>
DraftTwoClaims ==
    <<"T", "u", "l", "s", "i", " ", "M", "A", "Y", " ", "c", "a", "l", "m", ".", " ", "I", "t",
      " ", "c", "u", "r", "e", "s", " ", "c", "o", "l", "d", "s", ".", " ", "O", "i", "l", " ",
      "s", "u", "p", "p", "o", "r", "t", "s", " ", "s", "l", "e", "e", "p">>
DraftThreeClaims ==
    <<"T", "e", "a", " ", "h", "e", "l", "p", "s", ".", " ", "O", "i", "l", " ", "m", "a", "y",
      " ", "s", "o", "o", "t", "h", "e", ".", " ", "G", "h", "e", "e", " ", "c", "o", "n", "t",
      "a", "i", "n", "s", " ", "f", "a", "t", ".">>
WriterDrafts ==
    {DraftNoClaims, DraftTwoClaims, DraftThreeClaims}

\* classification responses of the workflow run
VerdictSupported ==
    <<"V", "E", "R", "D", "I", "C", "T", ":", " ", "S", "U", "P", "P", "O", "R", "T", "E", "D",
      "\n", "E", "X", "P", "L", "A", "N", "A", "T", "I", "O", "N", ":", " ", "s", "t", "a", "t",
      "e", "d", " ", "i", "n", " ", "s", "o", "u", "r", "c", "e">>
VerdictNotSupported ==
    <<"V", "E", "R", "D", "I", "C", "T", ":", " ", "N", "O", "T", "_", "S", "U", "P", "P", "O",
      "R", "T", "E", "D", "\n", "E", "X", "P", "L", "A", "N", "A", "T", "I", "O", "N", ":", " ",
      "a", "b", "s", "e", "n", "t">>
FactCheckResponses ==
    {VerdictSupported, VerdictNotSupported}

\* tone-editor responses of the workflow run
ToneFullPresent ==
    <<"E", "D", "I", "T", "E", "D", "_", "D", "R", "A", "F", "T", ":", "\n", "T", "u", "l", "s",
      "i", " ", "g", "e", "n", "t", "l", "y", " ", "h", "e", "l", "p", "s", ".", "\n", "\n", "T",
      "O", "N", "E", "_", "S", "U", "G", "G", "E", "S", "T", "I", "O", "N", "S", ":", "\n", "-",
      " ", "s", "o", "f", "t", "e", "n", "\n", "\n", "S", "A", "F", "E", "T", "Y", "_", "D", "I",
      "S", "C", "L", "A", "I", "M", "E", "R", "_", "S", "T", "A", "T", "U", "S", ":", " ", "P",
      "R", "E", "S", "E", "N", "T">>
ToneFullMissing ==
    <<"E", "D", "I", "T", "E", "D", "_", "D", "R", "A", "F", "T", ":", "\n", "T", "u", "l", "s",
      "i", " ", "g", "e", "n", "t", "l", "y", " ", "h", "e", "l", "p", "s", ".", "\n", "T", "O",
      "N", "E", "_", "S", "U", "G", "G", "E", "S", "T", "I", "O", "N", "S", ":", "\n", "BULLET",
      " ", "s", "o", "f", "t", "e", "n", "\n", "S", "A", "F", "E", "T", "Y", "_", "D", "I", "S",
      "C", "L", "A", "I", "M", "E", "R", "_", "S", "T", "A", "T", "U", "S", ":", " ", "M", "I",
      "S", "S", "I", "N", "G">>
ToneNoMarkers == <<"L", "o", "o", "k", "s", " ", "g", "o", "o", "d", " ", "t", "o", " ", "m", "e">>
ToneResponses ==
    {ToneFullPresent, ToneFullMissing, ToneNoMarkers}

\* claim texts handed to verify_draft directly
ClaimHelps == <<"T", "u", "l", "s", "i", " ", "h", "e", "l", "p", "s", ".">>
ClaimMay == <<"O", "i", "l", " ", "m", "a", "y", " ", "s", "o", "o", "t", "h", "e", ".">>
ClaimTexts ==
    {ClaimHelps, ClaimMay}

\* passage bodies around the excerpt limit
passage_text(ch, n) == [i \in 1..n |-> ch]
Document(page_content, metadata) == [page_content |-> page_content, metadata |-> metadata]
DocShort == Document(<<"T", "u", "l", "s", "i">>, [doc_id |-> "faq", section_id |-> "tulsi"])
DocBelow == Document(passage_text("b", ExcerptLen - 1), [doc_id |-> "guide"])
DocExact == Document(passage_text("e", ExcerptLen), [section_id |-> "dosage"])
DocAbove ==
    Document(passage_text("a", ExcerptLen + 1), [doc_id |-> "product", section_id |-> "oil"])
DocLong == Document(passage_text("l", MaxContentLen), [doc_type |-> "faq"])
Passages == {DocShort, DocBelow, DocExact, DocAbove, DocLong}

\* what retrieve(claim, k=3) can return in the workflow run: at most k passages
RetrievalResults ==
    {docs \in {<<>>, <<DocShort, DocAbove>>, <<DocExact, DocBelow>>,
               <<DocLong, DocShort, DocAbove>>} : Len(docs) <= FactCheckK}

\* the briefs a caller posts
Briefs ==
    {[brief |-> "stress management with Ashwagandha", target_length |-> "medium",
      include_sections |-> <<"benefits", "usage">>],
     [brief |-> "tulsi tea", target_length |-> "short", include_sections |-> None]}

(***************************************************************************)
(* State                                                                   *)
(***************************************************************************)
VARIABLES
    pc,                  \* position of the request in generate_article
    state,               \* the AgentState of the request
    fact_check_results,  \* locals of verify_draft
    all_citations,
    flagged_claims,
    claim_index,         \* 1-based position of the loop `for claim in claims`
    guardrail_check,     \* local of generate_article
    article_response,    \* the ArticleResponse returned by generate_article
    http_response,       \* what generate_article_endpoint answers
    calls,               \* history: stage invocations and external calls, in order
    retrieved,           \* history: what retrieve returned for each claim, in order
    fn_call,             \* a direct call of one function: its name and arguments
    fn_result,           \* what that call returned
    retriever_instance,  \* module global _retriever_instance of rag/retriever.py
    qa_chain_instance,   \* module global _qa_chain_instance of rag/qa_chain.py
    workflow_instance,   \* module global _workflow_instance of agents/workflow.py
    heap,                \* the objects constructed so far, by reference
    threads,             \* call stack, last return value and outcome of each thread
    store_log            \* history: the searches sent to a vector store, in order

vars ==
    <<pc, state, fact_check_results, all_citations, flagged_claims, claim_index,
      guardrail_check, article_response, http_response, calls, retrieved,
      fn_call, fn_result,
      retriever_instance, qa_chain_instance, workflow_instance, heap, threads, store_log>>
verify_locals == <<fact_check_results, all_citations, flagged_claims, claim_index>>
request_vars ==
    <<pc, state, fact_check_results, all_citations, flagged_claims, claim_index,
      guardrail_check, article_response, http_response, calls, retrieved>>
fn_vars == <<fn_call, fn_result>>
process_vars ==
    <<retriever_instance, qa_chain_instance, workflow_instance, heap, threads, store_log>>

\* AgentState(brief=..., target_length=..., include_sections=...)
AgentState(brief) ==
    [brief |-> brief.brief, target_length |-> brief.target_length,
     include_sections |-> brief.include_sections,
     outline |-> None, writer_output |-> None,
     fact_checker_output |-> None, tone_editor_output |-> None]

FactCheckerOutput(verified_draft, citations, results, flagged) ==
    [verified_draft |-> verified_draft, all_citations |-> citations,
     fact_check_results |-> results, flagged_claims |-> flagged]

\* entries of the call history
Call(op) == [op |-> op, claim |-> 0]
ClaimCall(op, i) == [op |-> op, claim |-> i]

\* HTTPException(status_code=500, detail=f"Error generating article: {str(e)}")
ServerError(e) == [status_code |-> 500, detail |-> <<"Error generating article: ", e>>]

\* the process is not part of the run: no module global is set, no thread runs
NoProcess ==
    /\ retriever_instance = None
    /\ qa_chain_instance = None
    /\ workflow_instance = None
    /\ heap = <<>>
    /\ threads = <<>>
    /\ store_log = <<>>

\* the locals and histories before anything has run
Fresh ==
    /\ fact_check_results = <<>>
    /\ all_citations = <<>>
    /\ flagged_claims = <<>>
    /\ claim_index = 0
    /\ guardrail_check = None
    /\ article_response = None
    /\ http_response = None
    /\ calls = <<>>
    /\ retrieved = <<>>

\* no request has arrived and no function is being called directly
Init ==
    /\ pc = "idle"
    /\ state = None
    /\ Fresh
    /\ NoProcess
    /\ fn_call = None
    /\ fn_result = None

(***************************************************************************)
(* agents/workflow.py: generate_article, one action per step               *)
(***************************************************************************)
\* generate_article_endpoint calls generate_article, which builds the AgentState
InitializeState ==
    /\ pc = "idle"
    /\ \E brief \in Briefs : state' = AgentState(brief)
    /\ pc' = "outline"
    /\ UNCHANGED <<verify_locals, guardrail_check, article_response, http_response,
                   calls, retrieved, fn_vars, process_vars>>

\* an external call raises: the exception leaves generate_article and
\* generate_article_endpoint turns it into a 500
Raise(call_entries, e) ==
    /\ pc' = "failed"
    /\ calls' = calls \o call_entries
    /\ http_response' = ServerError(e)
    /\ UNCHANGED <<state, verify_locals, guardrail_check, article_response, fn_vars, process_vars>>

\* Step 1: state.outline = self.outline_agent.create_outline(...)
CreateOutline ==
    /\ pc = "outline"
    /\ \E response \in OutlineResponses :
          state' = [state EXCEPT !.outline = create_outline(response)]
    /\ calls' = calls \o <<Call("create_outline"), Call("llm")>>
    /\ pc' = "writer"
    /\ UNCHANGED <<verify_locals, guardrail_check, article_response, http_response,
                   retrieved, fn_vars, process_vars>>

CreateOutlineRaises ==
    /\ pc = "outline"
    /\ Raise(<<Call("create_outline"), Call("llm")>>, "outline model error")
    /\ UNCHANGED retrieved

\* as GenerateDraft, but not waiting for the outline stage
GenerateDraft_without_outline ==
    /\ pc \in {"outline", "writer"}
    /\ \E draft \in WriterDrafts :
          state' = [state EXCEPT !.writer_output = WriterOutput(draft, extract_claims(draft))]
    /\ calls' = calls \o <<Call("generate_draft"), Call("llm")>>
    /\ pc' = "fact_check"
    /\ UNCHANGED <<verify_locals, guardrail_check, article_response, http_response,
                   retrieved, fn_vars, process_vars>>

\* Step 2: state.writer_output = self.writer_agent.generate_draft(...)
GenerateDraft ==
    /\ pc = "writer"
    /\ \E draft \in WriterDrafts :
          state' = [state EXCEPT !.writer_output = WriterOutput(draft, extract_claims(draft))]
    /\ calls' = calls \o <<Call("generate_draft"), Call("llm")>>
    /\ pc' = "fact_check"
    /\ UNCHANGED <<verify_locals, guardrail_check, article_response, http_response,
                   retrieved, fn_vars, process_vars>>

GenerateDraftRaises ==
    /\ pc = "writer"
    /\ Raise(<<Call("generate_draft"), Call("llm")>>, "writer model error")
    /\ UNCHANGED retrieved

\* Step 3: verify_draft is entered; its three lists start empty
BeginVerify ==
    /\ pc = "fact_check"
    /\ fact_check_results' = <<>>
    /\ all_citations' = <<>>
    /\ flagged_claims' = <<>>
    /\ claim_index' = 1
    /\ calls' = Append(calls, Call("verify_draft"))
    /\ pc' = "verify_loop"
    /\ UNCHANGED <<state, guardrail_check, article_response, http_response,
                   retrieved, fn_vars, process_vars>>

\* as collect_citation, but leaving out a citation that is already listed
collect_citation_distinct(citations, result) ==
    IF result.citation /= None /\ (\A k \in 1..Len(citations) : citations[k] /= result.citation)
    THEN Append(citations, result.citation)
    ELSE citations
\* `if result.citation: all_citations.append(result.citation)`
collect_citation(citations, result) ==
    IF result.citation /= None THEN Append(citations, result.citation) ELSE citations

\* as flag_claim, but flagging the supported claims (`not` dropped)
flag_claim_supported(flagged, result, claim) ==
    IF result.is_supported THEN Append(flagged, claim) ELSE flagged

\* `if not result.is_supported: flagged_claims.append(claim)`
flag_claim(flagged, result, claim) ==
    IF ~result.is_supported THEN Append(flagged, claim) ELSE flagged

\* the body of the loop once _verify_single_claim has returned result
record_result(result, claim) ==
    /\ fact_check_results' = Append(fact_check_results, result)
    /\ all_citations' = collect_citation(all_citations, result)
    /\ flagged_claims' = flag_claim(flagged_claims, result, claim)
    /\ claim_index' = claim_index + 1

\* as claim_calls, but retrieving a second time when nothing was found
claim_calls_retrying(i, docs) ==
    IF docs = <<>>
    THEN <<ClaimCall("retrieve", i), ClaimCall("retrieve", i)>>
    ELSE <<ClaimCall("retrieve", i), ClaimCall("llm", i)>>
\* the external calls _verify_single_claim makes for the claim at index i
\* when retrieve returns docs
claim_calls(i, docs) ==
    IF docs = <<>>
    THEN <<ClaimCall("retrieve", i)>>
    ELSE <<ClaimCall("retrieve", i), ClaimCall("llm", i)>>

\* one iteration of `for claim in claims`: retrieve, then classify unless
\* nothing was retrieved
VerifySingleClaim ==
    /\ pc = "verify_loop"
    /\ claim_index <= Len(state.writer_output.claims)
    /\ LET claim == state.writer_output.claims[claim_index]
       IN  \E docs \in RetrievalResults :
              /\ retrieved' = Append(retrieved, docs)
              /\ calls' = calls \o claim_calls(claim_index, docs)
              /\ IF docs = <<>>
                 THEN record_result(no_source_result(claim), claim)
                 ELSE \E response \in FactCheckResponses :
                         record_result(classified_result(claim, docs, response), claim)
    /\ UNCHANGED <<pc, state, guardrail_check, article_response, http_response,
                   fn_vars, process_vars>>

\* as RetrieveRaises, but the failure is caught inside the loop: the claim is
\* recorded as unsupported and the run goes on after the error was answered
RetrieveRaises_and_goes_on ==
    /\ pc = "verify_loop"
    /\ claim_index <= Len(state.writer_output.claims)
    /\ LET claim == state.writer_output.claims[claim_index]
       IN  record_result(no_source_result(claim), claim)
    /\ calls' = Append(calls, ClaimCall("retrieve", claim_index))
    /\ http_response' = ServerError("retrieval error")
    /\ UNCHANGED <<pc, state, guardrail_check, article_response, retrieved,
                   fn_vars, process_vars>>
\* self.retriever.retrieve(claim, k=3) raises
RetrieveRaises ==
    /\ pc = "verify_loop"
    /\ claim_index <= Len(state.writer_output.claims)
    /\ Raise(<<ClaimCall("retrieve", claim_index)>>, "retrieval error")
    /\ UNCHANGED retrieved

\* self.chain.invoke(...) raises after a non-empty retrieval
ClassifyRaises ==
    /\ pc = "verify_loop"
    /\ claim_index <= Len(state.writer_output.claims)
    /\ \E docs \in RetrievalResults \ {<<>>} :
          /\ retrieved' = Append(retrieved, docs)
          /\ Raise(claim_calls(claim_index, docs), "fact-check model error")

\* the loop is over: verify_draft returns the FactCheckerOutput
EndVerify ==
    /\ pc = "verify_loop"
    /\ claim_index > Len(state.writer_output.claims)
    /\ state' = [state EXCEPT !.fact_checker_output =
                    FactCheckerOutput(
                        add_citations_to_draft(state.writer_output.draft, fact_check_results),
                        all_citations, fact_check_results, flagged_claims)]
    /\ pc' = "guardrails"
    /\ UNCHANGED <<verify_locals, guardrail_check, article_response, http_response,
                   calls, retrieved, fn_vars, process_vars>>

\* as CheckGuardrails, but a failed check ends the run with an error
CheckGuardrails_aborting ==
    /\ pc = "guardrails"
    /\ LET result == check_guardrails(state.writer_output.draft,
                                      state.fact_checker_output.flagged_claims)
       IN  IF result.passed
           THEN /\ guardrail_check' = result
                /\ pc' = "tone"
                /\ UNCHANGED <<state, verify_locals, article_response, http_response,
                               calls, retrieved, fn_vars, process_vars>>
           ELSE /\ guardrail_check' = result
                /\ pc' = "failed"
                /\ http_response' = ServerError("guardrail check failed")
                /\ UNCHANGED <<state, verify_locals, article_response,
                               calls, retrieved, fn_vars, process_vars>>
\* guardrail_check = self.fact_checker_agent.check_guardrails(...)
CheckGuardrails ==
    /\ pc = "guardrails"
    /\ guardrail_check' = check_guardrails(state.writer_output.draft,
                                           state.fact_checker_output.flagged_claims)
    /\ pc' = "tone"
    /\ UNCHANGED <<state, verify_locals, article_response, http_response,
                   calls, retrieved, fn_vars, process_vars>>

\* Step 4: state.tone_editor_output = self.tone_editor_agent.edit_for_tone(...)
EditForTone ==
    /\ pc = "tone"
    /\ \E response \in ToneResponses :
          state' = [state EXCEPT !.tone_editor_output =
                       edit_for_tone(state.fact_checker_output.verified_draft, response)]
    /\ calls' = calls \o <<Call("edit_for_tone"), Call("llm")>>
    /\ pc' = "respond"
    /\ UNCHANGED <<verify_locals, guardrail_check, article_response, http_response,
                   retrieved, fn_vars, process_vars>>

EditForToneRaises ==
    /\ pc = "tone"
    /\ Raise(<<Call("edit_for_tone"), Call("llm")>>, "tone model error")
    /\ UNCHANGED retrieved

\* len([r for r in fact_check_results if r.is_supported])
supported_count(results) == Cardinality({i \in 1..Len(results) : results[i].is_supported})

\* workflow_metadata of generate_article
workflow_metadata(st, guardrails) ==
    [outline |->
        [sections |-> [i \in 1..Len(st.outline.outline) |->
                          [heading |-> st.outline.outline[i].heading,
                           points |-> st.outline.outline[i].key_points]],
         key_topics |-> st.outline.key_topics],
     fact_checking |->
        [total_claims |-> Len(st.writer_output.claims),
         supported_claims |-> supported_count(st.fact_checker_output.fact_check_results),
         flagged_claims |-> st.fact_checker_output.flagged_claims,
         guardrail_check |-> guardrails],
     tone_editing |->
        [suggestions |-> st.tone_editor_output.tone_suggestions,
         safety_disclaimer_added |-> st.tone_editor_output.safety_disclaimer_added]]

ArticleResponse(st, guardrails) ==
    [final_draft |-> st.tone_editor_output.final_draft,
     citations |-> st.fact_checker_output.all_citations,
     workflow_metadata |-> workflow_metadata(st, guardrails)]

\* as BuildResponse, but checking the guardrails again on the final draft
BuildResponse_rechecking ==
    /\ pc = "respond"
    /\ article_response' =
          ArticleResponse(state, check_guardrails(state.tone_editor_output.final_draft,
                                                  state.fact_checker_output.flagged_claims))
    /\ http_response' = [status_code |-> 200, detail |-> <<"ok", "">>]
    /\ pc' = "done"
    /\ UNCHANGED <<state, verify_locals, guardrail_check, calls, retrieved, fn_vars, process_vars>>
\* return ArticleResponse(...); generate_article_endpoint returns it
BuildResponse ==
    /\ pc = "respond"
    /\ article_response' = ArticleResponse(state, guardrail_check)
    /\ http_response' = [status_code |-> 200, detail |-> <<"ok", "">>]
    /\ pc' = "done"
    /\ UNCHANGED <<state, verify_locals, guardrail_check, calls, retrieved, fn_vars, process_vars>>

Next ==
    \/ InitializeState
    \/ CreateOutline
    \/ CreateOutlineRaises
    \/ GenerateDraft
    \/ GenerateDraftRaises
    \/ BeginVerify
    \/ VerifySingleClaim
    \/ RetrieveRaises
    \/ ClassifyRaises
    \/ EndVerify
    \/ CheckGuardrails
    \/ EditForTone
    \/ EditForToneRaises
    \/ BuildResponse

\* one request served by generate_article_endpoint
Spec == Init /\ [][Next]_vars

(***************************************************************************)
(* verify_draft called directly with any draft and any claim list          *)
(***************************************************************************)
VerifyDrafts == {DraftNoClaims, DraftTwoClaims}
ClaimLists == SeqsUpTo(ClaimTexts, MaxClaims)

\* the arguments of verify_draft held where generate_article holds them
VerifyArgs(draft, claims) ==
    [AgentState(CHOOSE brief \in Briefs : brief.include_sections = None)
        EXCEPT !.writer_output = WriterOutput(draft, claims)]

InitVerify ==
    /\ pc = "fact_check"
    /\ state \in {VerifyArgs(draft, claims) : draft \in VerifyDrafts, claims \in ClaimLists}
    /\ Fresh
    /\ NoProcess
    /\ fn_call = None
    /\ fn_result = None

NextVerify ==
    \/ BeginVerify
    \/ VerifySingleClaim
    \/ RetrieveRaises
    \/ ClassifyRaises
    \/ EndVerify

SpecVerify == InitVerify /\ [][NextVerify]_vars

(***************************************************************************)
(* The pure functions called directly: the call is drawn in the initial    *)
(* state and the action applies the function to it                         *)
(***************************************************************************)
Returned(value) == [returned |-> value]

InitDirect(direct_calls) ==
    /\ pc = "direct"
    /\ state = None
    /\ Fresh
    /\ NoProcess
    /\ fn_call \in direct_calls
    /\ fn_result = None

Return(value) ==
    /\ pc = "direct"
    /\ fn_result = None
    /\ fn_result' = Returned(value)
    /\ UNCHANGED <<request_vars, fn_call, process_vars>>

\* check_guardrails(draft, flagged_claims)
FlaggedLists == SeqsUpTo({ClaimHelps}, MaxClaims)
GuardrailCalls ==
    {[fn |-> "check_guardrails", draft |-> draft, flagged_claims |-> flagged] :
        draft \in Assembled(GuardrailFragments, MaxFrags), flagged \in FlaggedLists}
CallCheckGuardrails ==
    /\ fn_call.fn = "check_guardrails"
    /\ Return(check_guardrails(fn_call.draft, fn_call.flagged_claims))
SpecGuardrails == InitDirect(GuardrailCalls) /\ [][CallCheckGuardrails]_vars

\* _parse_fact_check_response(response)
VerdictCalls ==
    {[fn |-> "_parse_fact_check_response", response |-> response] :
        response \in Assembled(VerdictFragments, MaxFrags)}
CallParseFactCheckResponse ==
    /\ fn_call.fn = "_parse_fact_check_response"
    /\ Return(parse_fact_check_response(fn_call.response))
SpecVerdict == InitDirect(VerdictCalls) /\ [][CallParseFactCheckResponse]_vars

\* prepare_context_with_markers(documents)
TrackerCalls ==
    {[fn |-> "prepare_context_with_markers", documents |-> documents] :
        documents \in SeqsUpTo(Passages, MaxDocs)}
CallPrepareContext ==
    /\ fn_call.fn = "prepare_context_with_markers"
    /\ Return(prepare_context_with_markers(fn_call.documents))
SpecTracker == InitDirect(TrackerCalls) /\ [][CallPrepareContext]_vars

\* edit_for_tone(draft), the model answering with response
ToneDrafts == {<<>>, ClaimHelps, DraftTwoClaims}
ToneCalls ==
    {[fn |-> "edit_for_tone", draft |-> draft, response |-> response] :
        draft \in ToneDrafts, response \in Assembled(ToneFragments, MaxFrags)}
CallEditForTone ==
    /\ fn_call.fn = "edit_for_tone"
    /\ Return(edit_for_tone(fn_call.draft, fn_call.response))
SpecTone == InitDirect(ToneCalls) /\ [][CallEditForTone]_vars

(***************************************************************************)
(* _parse_outline called directly on responses in the prompted format      *)
(***************************************************************************)
\* most SECTION: blocks in one response
MaxSections == 3

\* a bullet line is written as mark \o text
BulletLine(mark, text) == [mark |-> mark, text |-> text]
\* a block is written as mark \o heading, then its bullet lines
OutlineBlock(mark, heading, bullets) == [mark |-> mark, heading |-> heading, bullets |-> bullets]

BlockIntro ==
    OutlineBlock(<<"S", "E", "C", "T", "I", "O", "N", ":", " ">>, <<"I", "n", "t", "r", "o">>,
        <<BulletLine(<<"-", " ">>, <<"w", "h", "a", "t", " ", "i", "t", " ", "i", "s">>),
          BulletLine(<<"-", " ">>, <<"h", "i", "s", "t", "o", "r", "y">>)>>)
BlockUse ==
    OutlineBlock(<<"S", "E", "C", "T", "I", "O", "N", ":">>, <<"U", "s", "e", ":", " ", "h", "o", "w", "-", "t", "o">>,
        <<BulletLine(<<"BULLET", " ">>, <<"d", "o", "s", "e">>)>>)
BlockSafety ==
    OutlineBlock(<<" ", " ", "S", "E", "C", "T", "I", "O", "N", ":", " ", " ">>, <<"S", "a", "f", "e", "t", "y">>,
        <<>>)
BlockCare ==
    OutlineBlock(<<"S", "E", "C", "T", "I", "O", "N", ":", " ">>, <<"D", "a", "i", "l", "y", " ", "c", "a", "r", "e">>,
        <<BulletLine(<<" ", " ", "-", " ">>, <<"o", "i", "l", " ", "-", " ", "w", "a", "r", "m">>),
          BulletLine(<<"BULLET">>, <<"t", "e", "a">>),
          BulletLine(<<"-", "-", " ">>, <<"r", "e", "s", "t">>)>>)
OutlineBlocks == {BlockIntro, BlockUse, BlockSafety, BlockCare}

TopicsTwo == <<" ", "t", "u", "l", "s", "i", ",", " ", "t", "e", "a">>
TopicsOne == <<"o", "i", "l">>
TopicsSpaced == <<" ", "a", " ", ",", "b", " ", "b", ",", " ", " ", "c", " ">>
TopicsNone == <<>>
TopicTexts == {TopicsTwo, TopicsOne, TopicsSpaced, TopicsNone}

\* the lines of a response: each block's heading line and bullet lines, the
\* lines of `gap` after every block, then the KEY_TOPICS: line
block_lines(block) ==
    <<block.mark \o block.heading>> \o
    [j \in 1..Len(block.bullets) |-> block.bullets[j].mark \o block.bullets[j].text]
RECURSIVE blocks_lines(_, _)
blocks_lines(blocks, gap) ==
    IF blocks = <<>> THEN <<>>
    ELSE block_lines(Head(blocks)) \o gap \o blocks_lines(Tail(blocks), gap)
WellFormedResponse(blocks, gap, topics_text) ==
    join(<<"\n">>, blocks_lines(blocks, gap) \o <<MARK_KEY_TOPICS \o topics_text>>)

\* nothing or one empty line between the blocks
Gaps == {<<>>, <<<<>>>>}
OutlineCalls ==
    {[fn |-> "_parse_outline", response |-> WellFormedResponse(blocks, gap, topics_text),
      blocks |-> blocks, gap |-> gap, topics_text |-> topics_text] :
        blocks \in SeqsUpTo(OutlineBlocks, MaxSections), gap \in Gaps,
        topics_text \in TopicTexts}
CallParseOutline ==
    /\ fn_call.fn = "_parse_outline"
    /\ Return(parse_outline(fn_call.response))
\* the same response handed to _parse_outline a second time
CallParseOutlineAgain ==
    /\ fn_call.fn = "_parse_outline"
    /\ pc = "direct"
    /\ fn_result /= None
    /\ DOMAIN fn_result = {"returned"}
    /\ fn_result' = [returned |-> fn_result.returned, again |-> parse_outline(fn_call.response)]
    /\ UNCHANGED <<request_vars, fn_call, process_vars>>
SpecOutline == InitDirect(OutlineCalls) /\ [][CallParseOutline \/ CallParseOutlineAgain]_vars

(***************************************************************************)
(* _extract_claims called directly on drafts assembled from sentences      *)
(***************************************************************************)
SentExample ==
    <<"A", "s", "h", "w", "a", "g", "a", "n", "d", "h", "a", " ", "h", "e", "l", "p", "s", " ",
      "w", "i", "t", "h", " ", "s", "t", "r", "e", "s", "s", ".", " ", "T", "h", "e", " ", "s",
      "k", "y", " ", "i", "s", " ", "b", "l", "u", "e", ".">>
SentMayUpper == <<" ", "O", "i", "l", " ", "M", "A", "Y", " ", "s", "o", "o", "t", "h", "e", ".">>
SentNoPeriod == <<" ", "G", "h", "e", "e", " ", "c", "o", "n", "t", "a", "i", "n", "s", " ", "f", "a", "t">>
SentDots == <<".", ".", " ", " ", ".", " ">>
SentTwoIndicators ==
    <<" ", "T", "u", "l", "s", "i", " ", "h", "e", "l", "p", "s", " ", "a", "n", "d", " ", "i",
      "s", " ", "U", "s", "e", "d", " ", "I", "n", " ", "A", "y", "u", "r", "v", "e", "d", "a",
      " ", "F", "o", "r", " ", "c", "a", "l", "m", ".">>
SentSpaceBeforeDot ==
    <<" ", "A", "m", "l", "a", " ", "i", "s", " ", "k", "n", "o", "w", "n", " ", "f", "o", "r",
      " ", "v", "i", "g", "o", "u", "r", " ", ".">>
SentSix ==
    <<" ", "A", " ", "m", "a", "y", ".", " ", "B", " ", "m", "a", "y", ".", " ", "C", " ", "m",
      "a", "y", ".", " ", "D", " ", "m", "a", "y", ".", " ", "E", " ", "m", "a", "y", ".", " ",
      "F", " ", "m", "a", "y", ".">>
SentenceFragments ==
    {SentExample, SentMayUpper, SentNoPeriod, SentDots, SentTwoIndicators,
     SentSpaceBeforeDot, SentSix}

ClaimsCalls ==
    {[fn |-> "_extract_claims", draft |-> draft] :
        draft \in Assembled(SentenceFragments, MaxFrags)}
CallExtractClaims ==
    /\ fn_call.fn = "_extract_claims"
    /\ Return(extract_claims(fn_call.draft))
SpecClaims == InitDirect(ClaimsCalls) /\ [][CallExtractClaims]_vars

(***************************************************************************)
(* The process: the module-level singletons of rag/retriever.py,           *)
(* rag/qa_chain.py and agents/workflow.py, reached by the startup event    *)
(* and then by request handlers that the server runs on separate threads   *)
(***************************************************************************)
\* request handlers running at the same time
NumHandlers == 2
\* config.TOP_K_CHUNKS
TOP_K_CHUNKS == 4

StartupThread == 0
Handlers == 1..NumHandlers
Threads == {StartupThread} \cup Handlers

\* an argument that may also be None
Given(n) == [given |-> n]

\* KeralaAyurvedaRetriever.__init__: the fields of a new retriever;
\* `initialized` records that initialize_vectorstore has returned on it
KeralaAyurvedaRetriever ==
    [class |-> "KeralaAyurvedaRetriever", vectorstore |-> None, retriever |-> None,
     initialized |-> FALSE]
\* QAChain.__init__: self.retriever = get_retriever()
QAChain(retriever) == [class |-> "QAChain", retriever |-> retriever]
\* ArticleGenerationWorkflow.__init__: the retriever of its fact_checker_agent
ArticleGenerationWorkflow(retriever) ==
    [class |-> "ArticleGenerationWorkflow", retriever |-> retriever]
\* the vector store handle and a retriever over it
Chroma == [class |-> "Chroma"]
as_retriever(k) == [search_type |-> "similarity", k |-> k]

ValueError(message) == [raises |-> "ValueError", message |-> message]
RetrieverNotInitialized ==
    ValueError("Retriever not initialized. Call initialize_vectorstore() first.")
VectorStoreNotInitialized == ValueError("Vector store not initialized.")
\* a search handed to the vector store
Search(searcher, k) == [searcher |-> searcher, k |-> k]

\* as retrieve, but testing self.vectorstore as retrieve_with_filter does
retrieve_testing_vectorstore(self, k) ==
    IF self.vectorstore = None THEN RetrieverNotInitialized
    ELSE IF k /= None THEN Search(as_retriever(k.given), k.given)
    ELSE Search(self.retriever, TOP_K_CHUNKS)
\* KeralaAyurvedaRetriever.retrieve: the exception raised or the search made
retrieve(self, k) ==
    IF self.retriever = None THEN RetrieverNotInitialized
    ELSE IF k /= None THEN Search(as_retriever(k.given), k.given)
    ELSE Search(self.retriever, self.retriever.k)

\* KeralaAyurvedaRetriever.retrieve_with_filter
retrieve_with_filter(self, doc_type, k) ==
    IF self.vectorstore = None THEN VectorStoreNotInitialized
    ELSE Search([similarity_search |-> doc_type], IF k = None THEN TOP_K_CHUNKS ELSE k.given)

raised(result) == "raises" \in DOMAIN result

\* a frame of a thread's call stack: the function, the position in it and
\* the object held in its local or self
Frame(fn, at, obj) == [fn |-> fn, at |-> at, obj |-> obj]
Thread(stack, returned, outcome) ==
    [stack |-> stack, returned |-> returned, outcome |-> outcome]
Idle == Thread(<<>>, None, None)

top(thread) == thread.stack[Len(thread.stack)]
\* thread t is about to run the step `at` of fn
at(t, fn, step) ==
    /\ threads[t].stack /= <<>>
    /\ top(threads[t]).fn = fn
    /\ top(threads[t]).at = step
goto(thread, step) == [thread EXCEPT !.stack[Len(thread.stack)].at = step]
hold(thread, obj) == [thread EXCEPT !.stack[Len(thread.stack)].obj = obj]
\* call fn and come back at `step`
enter(thread, fn, first, obj, step) ==
    [thread EXCEPT !.stack = Append(goto(thread, step).stack, Frame(fn, first, obj))]
return(thread, value) ==
    [thread EXCEPT !.stack = SubSeq(thread.stack, 1, Len(thread.stack) - 1),
                   !.returned = value]

QueryError(e) == [status_code |-> 500, detail |-> <<"Error processing query: ", e>>]
\* the except clause of the function at the bottom of the stack
caught(fn, e) ==
    IF fn = "query_endpoint" THEN QueryError(e)
    ELSE IF fn = "generate_article_endpoint" THEN ServerError(e)
    ELSE IF fn = "startup_event" THEN [printed |-> <<"Error during initialization: ", e>>]
    ELSE [uncaught |-> e]
\* an exception leaves every frame up to the one at the bottom
raise(thread, e) ==
    [thread EXCEPT !.stack = <<>>, !.outcome = caught(thread.stack[1].fn, e)]
finish(thread, outcome) == [thread EXCEPT !.stack = <<>>, !.outcome = outcome]

\* a reference to an object: its class and the thread that constructed it
\* (a thread constructs at most one object of a class)
Ref(class, t) == [class |-> class, by |-> t]
deref(reference) == heap[reference]
new(reference, object) == heap' = [r \in DOMAIN heap \cup {reference} |->
                                      IF r = reference THEN object ELSE heap[r]]

run(t, thread) == threads' = [threads EXCEPT ![t] = thread]
\* the step touches nothing but the thread itself
local_step ==
    UNCHANGED <<request_vars, fn_vars, retriever_instance, qa_chain_instance,
                workflow_instance, heap, store_log>>

\* the process starts: nothing is constructed, the startup event is about to
\* call get_qa_chain()
InitProcess ==
    /\ pc = "process"
    /\ state = None
    /\ Fresh
    /\ fn_call = None
    /\ fn_result = None
    /\ retriever_instance = None
    /\ qa_chain_instance = None
    /\ workflow_instance = None
    /\ heap = <<>>
    /\ store_log = <<>>
    /\ threads =
        [t \in Threads |->
            IF t = StartupThread
            THEN Thread(<<Frame("startup_event", "get_workflow", None),
                          Frame("get_qa_chain", "check", None)>>, None, None)
            ELSE Idle]

\* get_retriever: `if _retriever_instance is None`, and in the branch
\* KeralaAyurvedaRetriever(), whose object only the caller holds so far
GetRetrieverCheck(t) ==
    /\ at(t, "get_retriever", "check")
    /\ IF retriever_instance = None
       THEN /\ new(Ref("KeralaAyurvedaRetriever", t), KeralaAyurvedaRetriever)
            /\ run(t, hold(goto(threads[t], "assign"), Ref("KeralaAyurvedaRetriever", t)))
       ELSE /\ run(t, goto(threads[t], "return"))
            /\ UNCHANGED heap
    /\ UNCHANGED <<request_vars, fn_vars, retriever_instance, qa_chain_instance,
                   workflow_instance, store_log>>
\* _setup_embeddings raises inside the constructor
GetRetrieverConstructRaises(t) ==
    /\ at(t, "get_retriever", "check")
    /\ retriever_instance = None
    /\ run(t, raise(threads[t], "embedding model not loaded"))
    /\ local_step
\* `_retriever_instance = ...`
GetRetrieverAssign(t) ==
    /\ at(t, "get_retriever", "assign")
    /\ retriever_instance' = top(threads[t]).obj
    /\ run(t, goto(threads[t], "initialize"))
    /\ UNCHANGED <<request_vars, fn_vars, qa_chain_instance, workflow_instance, heap,
                   store_log>>
\* `_retriever_instance.initialize_vectorstore()`: the global is read again
GetRetrieverInitialize(t) ==
    /\ at(t, "get_retriever", "initialize")
    /\ run(t, enter(threads[t], "initialize_vectorstore", "load_documents",
                    retriever_instance, "return"))
    /\ local_step
\* `return _retriever_instance`
GetRetrieverReturn(t) ==
    /\ at(t, "get_retriever", "return")
    /\ run(t, return(threads[t], retriever_instance))
    /\ local_step

\* initialize_vectorstore: documents = load_documents()
LoadDocuments(t) ==
    /\ at(t, "initialize_vectorstore", "load_documents")
    /\ run(t, goto(threads[t], "vectorstore"))
    /\ local_step
\* load_documents() raises
LoadDocumentsRaises(t) ==
    /\ at(t, "initialize_vectorstore", "load_documents")
    /\ run(t, raise(threads[t], "content pack not readable"))
    /\ local_step
\* self.vectorstore = Chroma(...), or Chroma.from_documents(...) in the
\* except clause
SetVectorstore(t) ==
    /\ at(t, "initialize_vectorstore", "vectorstore")
    /\ heap' = [heap EXCEPT ![top(threads[t]).obj].vectorstore = Chroma]
    /\ run(t, goto(threads[t], "as_retriever"))
    /\ UNCHANGED <<request_vars, fn_vars, retriever_instance, qa_chain_instance,
                   workflow_instance, store_log>>
\* Chroma.from_documents raises in the except clause
SetVectorstoreRaises(t) ==
    /\ at(t, "initialize_vectorstore", "vectorstore")
    /\ run(t, raise(threads[t], "vector store not created"))
    /\ local_step
\* self.retriever = self.vectorstore.as_retriever(...), and the method returns
SetRetriever(t) ==
    /\ at(t, "initialize_vectorstore", "as_retriever")
    /\ heap' = [heap EXCEPT ![top(threads[t]).obj].retriever = as_retriever(TOP_K_CHUNKS),
                            ![top(threads[t]).obj].initialized = TRUE]
    /\ run(t, return(threads[t], None))
    /\ UNCHANGED <<request_vars, fn_vars, retriever_instance, qa_chain_instance,
                   workflow_instance, store_log>>

\* get_qa_chain: `if _qa_chain_instance is None`, and in the branch
\* QAChain.__init__ up to `self.retriever = get_retriever()`
GetQAChainCheck(t) ==
    /\ at(t, "get_qa_chain", "check")
    /\ run(t, IF qa_chain_instance = None
              THEN enter(threads[t], "get_retriever", "check", None, "assign")
              ELSE goto(threads[t], "return"))
    /\ local_step
\* ChatGroq(...) raises inside QAChain.__init__
GetQAChainConstructRaises(t) ==
    /\ at(t, "get_qa_chain", "check")
    /\ qa_chain_instance = None
    /\ run(t, raise(threads[t], "language model not configured"))
    /\ local_step
\* the rest of QAChain.__init__, which no other thread can see, and
\* `_qa_chain_instance = ...`
GetQAChainAssign(t) ==
    /\ at(t, "get_qa_chain", "assign")
    /\ new(Ref("QAChain", t), QAChain(threads[t].returned))
    /\ qa_chain_instance' = Ref("QAChain", t)
    /\ run(t, goto(threads[t], "return"))
    /\ UNCHANGED <<request_vars, fn_vars, retriever_instance, workflow_instance, store_log>>
\* `return _qa_chain_instance`
GetQAChainReturn(t) ==
    /\ at(t, "get_qa_chain", "return")
    /\ run(t, return(threads[t], qa_chain_instance))
    /\ local_step

\* get_workflow: `if _workflow_instance is None`, and in the branch
\* ArticleGenerationWorkflow.__init__ up to `self.retriever = get_retriever()`
\* of FactCheckerAgent.__init__
GetWorkflowCheck(t) ==
    /\ at(t, "get_workflow", "check")
    /\ run(t, IF workflow_instance = None
              THEN enter(threads[t], "get_retriever", "check", None, "assign")
              ELSE goto(threads[t], "return"))
    /\ local_step
\* ChatGroq(...) raises inside the constructor of an agent
GetWorkflowConstructRaises(t) ==
    /\ at(t, "get_workflow", "check")
    /\ workflow_instance = None
    /\ run(t, raise(threads[t], "language model not configured"))
    /\ local_step
\* the rest of ArticleGenerationWorkflow.__init__ and `_workflow_instance = ...`
GetWorkflowAssign(t) ==
    /\ at(t, "get_workflow", "assign")
    /\ new(Ref("ArticleGenerationWorkflow", t), ArticleGenerationWorkflow(threads[t].returned))
    /\ workflow_instance' = Ref("ArticleGenerationWorkflow", t)
    /\ run(t, goto(threads[t], "return"))
    /\ UNCHANGED <<request_vars, fn_vars, retriever_instance, qa_chain_instance, store_log>>
\* `return _workflow_instance`
GetWorkflowReturn(t) ==
    /\ at(t, "get_workflow", "return")
    /\ run(t, return(threads[t], workflow_instance))
    /\ local_step

\* startup_event: get_qa_chain() has returned, workflow = get_workflow()
StartupGetWorkflow(t) ==
    /\ at(t, "startup_event", "get_workflow")
    /\ run(t, enter(threads[t], "get_workflow", "check", None, "ready"))
    /\ local_step
StartupReady(t) ==
    /\ at(t, "startup_event", "ready")
    /\ run(t, finish(threads[t], [printed |-> "System Ready!"]))
    /\ local_step

\* the server takes requests once the startup event is over
started == threads[StartupThread].stack = <<>>
\* what a handler thread runs: the two endpoints of main.py, each starting
\* with the call of its singleton getter
Entries ==
    {<<Frame("query_endpoint", "answer_query", None), Frame("get_qa_chain", "check", None)>>,
     <<Frame("generate_article_endpoint", "generate_article", None),
       Frame("get_workflow", "check", None)>>}
\* a request arrives and is given to the next free handler thread
Arrive(t) ==
    /\ t \in Handlers
    /\ started
    /\ threads[t] = Idle
    /\ \A u \in Handlers : u < t => threads[u] /= Idle
    /\ \E entry \in Entries : run(t, Thread(entry, None, None))
    /\ local_step

\* the call ends with the exception it raised or with the search it made
complete(t, result) ==
    IF raised(result)
    THEN /\ run(t, raise(threads[t], result.message))
         /\ UNCHANGED store_log
    ELSE /\ run(t, finish(threads[t], [status_code |-> 200]))
         /\ store_log' = Append(store_log, result)

\* qa_chain.answer_query: self.retriever.retrieve(question)
AnswerQuery(t) ==
    /\ at(t, "query_endpoint", "answer_query")
    /\ complete(t, retrieve(deref(deref(threads[t].returned).retriever), None))
    /\ UNCHANGED <<request_vars, fn_vars, retriever_instance, qa_chain_instance,
                   workflow_instance, heap>>
\* workflow.generate_article: self.retriever.retrieve(claim, k=3) in verify_draft
GenerateArticleRetrieve(t) ==
    /\ at(t, "generate_article_endpoint", "generate_article")
    /\ complete(t, retrieve(deref(deref(threads[t].returned).retriever), Given(FactCheckK)))
    /\ UNCHANGED <<request_vars, fn_vars, retriever_instance, qa_chain_instance,
                   workflow_instance, heap>>

NextProcess ==
    \E t \in Threads :
        \/ GetRetrieverCheck(t) \/ GetRetrieverConstructRaises(t) \/ GetRetrieverAssign(t)
        \/ GetRetrieverInitialize(t) \/ GetRetrieverReturn(t)
        \/ LoadDocuments(t) \/ LoadDocumentsRaises(t)
        \/ SetVectorstore(t) \/ SetVectorstoreRaises(t) \/ SetRetriever(t)
        \/ GetQAChainCheck(t) \/ GetQAChainConstructRaises(t)
        \/ GetQAChainAssign(t) \/ GetQAChainReturn(t)
        \/ GetWorkflowCheck(t) \/ GetWorkflowConstructRaises(t)
        \/ GetWorkflowAssign(t) \/ GetWorkflowReturn(t)
        \/ StartupGetWorkflow(t) \/ StartupReady(t)
        \/ Arrive(t)
        \/ AnswerQuery(t) \/ GenerateArticleRetrieve(t)
SpecProcess == InitProcess /\ [][NextProcess]_vars


(***************************************************************************)
(* One KeralaAyurvedaRetriever used directly: a thread runs                *)
(* initialize_vectorstore on it while other threads call retrieve and      *)
(* retrieve_with_filter                                                    *)
(***************************************************************************)
TheRetriever == Ref("KeralaAyurvedaRetriever", StartupThread)
InitRetriever ==
    /\ pc = "process"
    /\ state = None
    /\ Fresh
    /\ fn_call = None
    /\ fn_result = None
    /\ retriever_instance = None
    /\ qa_chain_instance = None
    /\ workflow_instance = None
    /\ heap = [r \in {TheRetriever} |-> KeralaAyurvedaRetriever]
    /\ store_log = <<>>
    /\ threads =
        [t \in Threads |->
            IF t = StartupThread
            THEN Thread(<<Frame("initialize_vectorstore", "load_documents", TheRetriever)>>,
                        None, None)
            ELSE Idle]

\* the call made by a thread and what it raised or searched
Called(method, k, result) == [method |-> method, k |-> k, result |-> result]
direct_call(t, method, k, result) ==
    /\ run(t, Thread(<<>>, None, Called(method, k, result)))
    /\ store_log' = IF raised(result) THEN store_log ELSE Append(store_log, result)
    /\ UNCHANGED <<request_vars, fn_vars, retriever_instance, qa_chain_instance,
                   workflow_instance, heap>>
\* the values of k that callers pass
Ks == {None, Given(1), Given(FactCheckK)}
\* retriever.retrieve(query) and retriever.retrieve(query, k=...)
CallRetrieve(t) ==
    /\ t \in Handlers
    /\ threads[t] = Idle
    /\ \E k \in Ks : direct_call(t, "retrieve", k, retrieve(deref(TheRetriever), k))
\* retriever.retrieve_with_filter(query, doc_type=..., k=...)
CallRetrieveWithFilter(t) ==
    /\ t \in Handlers
    /\ threads[t] = Idle
    /\ \E doc_type \in {"", "faq"}, k \in Ks :
          direct_call(t, "retrieve_with_filter", k,
                      retrieve_with_filter(deref(TheRetriever), doc_type, k))
NextRetriever ==
    \E t \in Threads :
        \/ LoadDocuments(t) \/ LoadDocumentsRaises(t)
        \/ SetVectorstore(t) \/ SetVectorstoreRaises(t) \/ SetRetriever(t)
        \/ CallRetrieve(t) \/ CallRetrieveWithFilter(t)
SpecRetriever == InitRetriever /\ [][NextRetriever]_vars

(***************************************************************************)
(* agents/workflow.py: concurrent generate_article calls on the one        *)
(* workflow instance, one handler thread per request                       *)
(***************************************************************************)
TheWorkflow == Ref("ArticleGenerationWorkflow", StartupThread)
\* one call of generate_article: where it is, its argument `brief`, its
\* locals `state` (a reference to the AgentState object) and
\* `guardrail_check`, the arguments of the agent call in progress, what it
\* returned, and the answers the LLM and the retriever gave to this call
Invocation(position, brief, st, args, guardrails, response, answers) ==
    [at |-> position, brief |-> brief, state |-> st, args |-> args,
     guardrail_check |-> guardrails, response |-> response, answers |-> answers]
NoAnswers == [outline |-> None, draft |-> None, verdicts |-> None, tone |-> None]
NotArrived == Invocation("idle", None, None, None, None, None, NoAnswers)
\* what the retriever and the classifier answer for the claims of one draft
ClaimAnswers == {[docs |-> <<DocShort, DocAbove>>, response |-> VerdictSupported]}
ConcurrentDrafts == {DraftNoClaims, DraftTwoClaims}

\* an access to a heap object by the invocation of thread t
access(object, t, kind) == [object |-> object, by |-> t, kind |-> kind]
\* thread t goes on as `invocation`, having made the accesses
proceed(t, invocation, accesses) ==
    /\ threads' = [threads EXCEPT ![t] = invocation]
    /\ store_log' = store_log \cup accesses
    /\ UNCHANGED <<request_vars, fn_vars, retriever_instance, qa_chain_instance,
                   workflow_instance>>
moved(t, position) == [threads[t] EXCEPT !.at = position]
\* `state.<field>` read through the local variable of thread t
read_state(t) == heap[threads[t].state]
reads(t) == {access(threads[t].state, t, "read")}
\* `state.<field> = value` through the local variable of thread t
write_state(t, field, value) ==
    heap' = [heap EXCEPT ![threads[t].state] = [@ EXCEPT ![field] = value]]
writes(t) == {access(threads[t].state, t, "write")}

\* as new_state, but keeping the AgentState on the workflow object
new_state_on_workflow(t) == Ref("AgentState", StartupThread)

\* `state = AgentState(...)`: a new object for each call
new_state(t) == Ref("AgentState", t)

\* the request of thread t reaches workflow.generate_article(brief), which
\* builds its AgentState
StartInvocation(t) ==
    /\ threads[t] = NotArrived
    /\ \A earlier \in Handlers : earlier < t => threads[earlier] /= NotArrived
    /\ \E brief \in Briefs :
          /\ new(new_state(t), AgentState(brief))
          /\ proceed(t, Invocation("outline", brief, new_state(t), None, None, None, NoAnswers),
                     {access(new_state(t), t, "create")})
\* Step 1: the arguments of create_outline are read from state
OutlineCall(t) ==
    /\ threads[t].at = "outline"
    /\ proceed(t, [moved(t, "create_outline") EXCEPT !.args =
                      [brief |-> read_state(t).brief,
                       target_length |-> read_state(t).target_length,
                       include_sections |-> read_state(t).include_sections]],
               reads(t))
    /\ UNCHANGED heap
\* create_outline returns; `state.outline = ...`
OutlineReturn(t) ==
    /\ threads[t].at = "create_outline"
    /\ \E response \in {OutlineWellFormed} :
          /\ write_state(t, "outline", create_outline(response))
          /\ proceed(t, [moved(t, "writer") EXCEPT !.answers.outline = response], writes(t))
\* Step 2: the arguments of generate_draft are read from state
WriterCall(t) ==
    /\ threads[t].at = "writer"
    /\ proceed(t, [moved(t, "generate_draft") EXCEPT !.args =
                      [brief |-> read_state(t).brief,
                       outline |-> read_state(t).outline,
                       target_length |-> read_state(t).target_length]],
               reads(t))
    /\ UNCHANGED heap
\* generate_draft returns; `state.writer_output = ...`
WriterReturn(t) ==
    /\ threads[t].at = "generate_draft"
    /\ \E draft \in ConcurrentDrafts :
          /\ write_state(t, "writer_output", WriterOutput(draft, extract_claims(draft)))
          /\ proceed(t, [moved(t, "fact_check") EXCEPT !.answers.draft = draft], writes(t))

RECURSIVE verify_loop(_, _, _)
\* the three lists of verify_draft after the first i iterations of
\* `for claim in claims`
verify_loop(claims, answer, i) ==
    IF i = 0
    THEN [results |-> <<>>, citations |-> <<>>, flagged |-> <<>>]
    ELSE LET before == verify_loop(claims, answer, i - 1)
             result == IF answer.docs = <<>>
                       THEN no_source_result(claims[i])
                       ELSE classified_result(claims[i], answer.docs, answer.response)
         IN  [results |-> Append(before.results, result),
              citations |-> collect_citation(before.citations, result),
              flagged |-> flag_claim(before.flagged, result, claims[i])]
\* FactCheckerAgent.verify_draft as a function of its arguments and of the
\* answers of the retriever and the classifier
verify_draft(draft, claims, answer) ==
    LET lists == verify_loop(claims, answer, Len(claims))
    IN  FactCheckerOutput(add_citations_to_draft(draft, lists.results),
                          lists.citations, lists.results, lists.flagged)

\* Step 3: the arguments of verify_draft are read from state
VerifyCall(t) ==
    /\ threads[t].at = "fact_check"
    /\ proceed(t, [moved(t, "verify_draft") EXCEPT !.args =
                      [draft |-> read_state(t).writer_output.draft,
                       claims |-> read_state(t).writer_output.claims]],
               reads(t))
    /\ UNCHANGED heap
\* verify_draft returns; `state.fact_checker_output = ...`
VerifyReturn(t) ==
    /\ threads[t].at = "verify_draft"
    /\ \E answer \in ClaimAnswers :
          /\ write_state(t, "fact_checker_output",
                         verify_draft(threads[t].args.draft, threads[t].args.claims, answer))
          /\ proceed(t, [moved(t, "guardrails") EXCEPT !.answers.verdicts = answer], writes(t))
\* guardrail_check = check_guardrails(state.writer_output.draft, ...), then
\* Step 4: the argument of edit_for_tone is read from state
ToneCall(t) ==
    /\ threads[t].at = "guardrails"
    /\ proceed(t, [moved(t, "edit_for_tone") EXCEPT
                      !.guardrail_check =
                          check_guardrails(read_state(t).writer_output.draft,
                                           read_state(t).fact_checker_output.flagged_claims),
                      !.args = [draft |-> read_state(t).fact_checker_output.verified_draft]],
               reads(t))
    /\ UNCHANGED heap
\* edit_for_tone returns; `state.tone_editor_output = ...`
ToneReturn(t) ==
    /\ threads[t].at = "edit_for_tone"
    /\ \E response \in {ToneFullMissing} :
          /\ write_state(t, "tone_editor_output", edit_for_tone(threads[t].args.draft, response))
          /\ proceed(t, [moved(t, "respond") EXCEPT !.answers.tone = response], writes(t))
\* the ArticleResponse is built from state and guardrail_check and returned
ReturnArticleResponse(t) ==
    /\ threads[t].at = "respond"
    /\ proceed(t, [moved(t, "done") EXCEPT !.response =
                      ArticleResponse(read_state(t), threads[t].guardrail_check)],
               reads(t))
    /\ UNCHANGED heap

InitConcurrent ==
    /\ pc = "process"
    /\ state = None
    /\ Fresh
    /\ fn_call = None
    /\ fn_result = None
    /\ retriever_instance = TheRetriever
    /\ qa_chain_instance = None
    /\ workflow_instance = TheWorkflow
    /\ heap = [r \in {TheRetriever, TheWorkflow} |->
                  IF r = TheWorkflow
                  THEN ArticleGenerationWorkflow(TheRetriever)
                  ELSE [KeralaAyurvedaRetriever EXCEPT
                           !.vectorstore = Chroma,
                           !.retriever = as_retriever(TOP_K_CHUNKS),
                           !.initialized = TRUE]]
    /\ store_log = {}
    /\ threads = [t \in Handlers |-> NotArrived]
NextConcurrent ==
    \E t \in Handlers :
        \/ StartInvocation(t)
        \/ OutlineCall(t) \/ OutlineReturn(t)
        \/ WriterCall(t) \/ WriterReturn(t)
        \/ VerifyCall(t) \/ VerifyReturn(t)
        \/ ToneCall(t) \/ ToneReturn(t)
        \/ ReturnArticleResponse(t)
\* NumHandlers requests for an article, served at the same time
SpecConcurrent == InitConcurrent /\ [][NextConcurrent]_vars

(***************************************************************************)
(* rag/citation_tracker.py: extract_citations_from_answer                  *)
(***************************************************************************)
\* f"Source {i+1}" for the 0-based position i
source_mention(i) == <<"S", "o", "u", "r", "c", "e", " ">> \o str_int(i + 1)

\* as is_cited, but looking for the bracketed marker only
is_cited_by_marker_only(answer, i) == contains(answer, source_marker(i))

\* `source_marker in answer or f"Source {i+1}" in answer` for the 0-based i
is_cited(answer, i) ==
    contains(answer, source_marker(i)) \/ contains(answer, source_mention(i))

RECURSIVE used_citations(_, _, _)
\* used_citations after the first n iterations of
\* `for i, citation in enumerate(available_citations)`
used_citations(answer, available_citations, n) ==
    IF n = 0 THEN <<>>
    ELSE LET before == used_citations(answer, available_citations, n - 1)
         IN  IF is_cited(answer, n - 1)
             THEN Append(before, available_citations[n])
             ELSE before
\* CitationTracker.extract_citations_from_answer
extract_citations_from_answer(answer, available_citations) ==
    LET used == used_citations(answer, available_citations, Len(available_citations))
    IN  IF used = <<>> THEN available_citations ELSE used

\* pieces of answers: markers, mentions, wrong letter case, a longer number
AnsMarkerOne == <<"[", "S", "O", "U", "R", "C", "E", "_", "1", "]", " ">>
AnsMentionTwo == <<"S", "o", "u", "r", "c", "e", " ", "2", " ">>
AnsMarkerThree == <<"[", "S", "O", "U", "R", "C", "E", "_", "3", "]">>
AnsLowerCase == <<"s", "o", "u", "r", "c", "e", " ", "1", ",", " ", "[", "s", "o", "u", "r", "c", "e", "_", "2", "]", " ">>
AnsMentionTwelve == <<"S", "o", "u", "r", "c", "e", " ", "1", "2", " ">>
AnsPlain == <<"T", "u", "l", "s", "i", " ", "t", "e", "a", " ">>
AnswerFragments == {AnsMarkerOne, AnsMentionTwo, AnsMarkerThree, AnsLowerCase, AnsMentionTwelve, AnsPlain}
CitationTulsi == Citation("faq", "tulsi", <<"T", "u", "l", "s", "i">>)
CitationDosage == Citation("guide", "dosage", <<"D", "o", "s", "e">>)
CitationsCalls ==
    {[fn |-> "extract_citations_from_answer", answer |-> answer,
      available_citations |-> available] :
        answer \in Assembled(AnswerFragments, MaxFrags),
        available \in SeqsUpTo({CitationTulsi, CitationDosage}, MaxDocs)}
CallExtractCitations ==
    /\ fn_call.fn = "extract_citations_from_answer"
    /\ Return(extract_citations_from_answer(fn_call.answer, fn_call.available_citations))
SpecCitations == InitDirect(CitationsCalls) /\ [][CallExtractCitations]_vars

(***************************************************************************)
(* agents/outline_agent.py: _parse_outline on responses that do not keep   *)
(* to the prompted format, given line by line                              *)
(***************************************************************************)
MaxLines == 3
LineSectionIntro == <<"S", "E", "C", "T", "I", "O", "N", ":", " ", "I", "n", "t", "r", "o">>
LineSectionUse == <<" ", " ", "S", "E", "C", "T", "I", "O", "N", ":", " ", "U", "s", "e", " ">>
LineSectionEmpty == <<"S", "E", "C", "T", "I", "O", "N", ":">>
LineDashPoint == <<" ", "-", " ", "d", "o", "s", "e">>
LineBulletPoint == <<"BULLET", " ", "r", "e", "s", "t">>
LineTopics == <<"K", "E", "Y", "_", "T", "O", "P", "I", "C", "S", ":", " ", "a", ",", " ", "b">>
LineNote == <<"N", "o", "t", "e", ":", " ", "t", "e", "x", "t">>
OutlineLineMenu ==
    {LineSectionIntro, LineSectionUse, LineSectionEmpty, LineDashPoint, LineBulletPoint,
     LineTopics, LineNote}
OutlineLinesCalls ==
    {[fn |-> "_parse_outline", lines |-> lines, response |-> join(<<"\n">>, lines)] :
        lines \in SeqsUpTo(OutlineLineMenu, MaxLines)}
SpecOutlineLines == InitDirect(OutlineLinesCalls) /\ [][CallParseOutline]_vars

(***************************************************************************)
(* agents/fact_checker_agent.py: _parse_fact_check_response on responses   *)
(* in the format of FACT_CHECK_PROMPT                                      *)
(***************************************************************************)
MARK_VERDICT == <<"V", "E", "R", "D", "I", "C", "T", ":", " ">>
ExplStates == <<"T", "h", "e", " ", "s", "o", "u", "r", "c", "e", " ", "s", "t", "a", "t", "e", "s", " ", "t", "h", "i", "s">>
ExplNotSupported == <<" ", "w", "h", "i", "l", "e", " ", "t", "h", "e", " ", "d", "o", "s", "e", " ", "i", "s", " ", "n", "o", "t", "_", "s", "u", "p", "p", "o", "r", "t", "e", "d">>
ExplPartially == <<" ", "a", "n", "d", " ", "p", "a", "r", "t", "i", "a", "l", "l", "y", "_", "s", "u", "p", "p", "o", "r", "t", "e", "d", " ", "e", "l", "s", "e", "w", "h", "e", "r", "e">>
ExplUnsupported == <<" ", "u", "n", "s", "u", "p", "p", "o", "r", "t", "e", "d">>
ExplEnd == <<".">>
ExplanationFragments == {ExplStates, ExplNotSupported, ExplPartially, ExplUnsupported, ExplEnd}
\* "VERDICT: <token>\nEXPLANATION: <text>"
PromptedResponse(token, text) ==
    MARK_VERDICT \o token \o <<"\n">> \o MARK_EXPLANATION \o <<" ">> \o text
VerdictTokens == {TOK_SUPPORTED, TOK_PARTIALLY_SUPPORTED, TOK_NOT_SUPPORTED}
PromptedCalls ==
    {[fn |-> "_parse_fact_check_response", token |-> token, text |-> text,
      response |-> PromptedResponse(token, text)] :
        token \in VerdictTokens, text \in Assembled(ExplanationFragments, MaxFrags)}
SpecVerdictFormat == InitDirect(PromptedCalls) /\ [][CallParseFactCheckResponse]_vars

(***************************************************************************)
(* Properties                                                              *)
(***************************************************************************)
Range(seq) == {seq[i] : i \in 1..Len(seq)}

StageNames == <<"create_outline", "generate_draft", "verify_draft", "edit_for_tone">>
IsStage(call) == \E k \in 1..Len(StageNames) : StageNames[k] = call.op
\* the stages invoked so far, in order of invocation
stages_invoked ==
    LET stage_calls == SelectSeq(calls, IsStage)
    IN  [k \in 1..Len(stage_calls) |-> stage_calls[k].op]
\* stage k has returned: its output is in the AgentState
stage_returned(k) ==
    /\ state /= None
    /\ CASE k = 1 -> state.outline /= None
         [] k = 2 -> state.writer_output /= None
         [] k = 3 -> state.fact_checker_output /= None
         [] k = 4 -> state.tone_editor_output /= None

\* C1: in every run of generate_article the stages invoked so far are a
\* prefix of create_outline, generate_draft, verify_draft, edit_for_tone
\* (fixed order, each at most once, none skipped), a stage is invoked only
\* when its predecessor has returned, and an ArticleResponse exists only
\* when all four have been invoked and have returned.
C1_StagesInFixedOrder ==
    /\ Len(stages_invoked) <= Len(StageNames)
    /\ stages_invoked = SubSeq(StageNames, 1, Len(stages_invoked))
    /\ \A k \in 2..Len(stages_invoked) : stage_returned(k - 1)
    /\ article_response /= None =>
          /\ stages_invoked = StageNames
          /\ \A k \in 1..Len(StageNames) : stage_returned(k)
\* a run that went through all four stages and produced its response
C1_Witness ==
    /\ pc = "done"
    /\ article_response /= None
    /\ stages_invoked = StageNames

\* the claims at the positions of the unsupported results, in input order
unsupported_claims(results, claims) ==
    LET unsupported(i) == ~results[i].is_supported
        positions == SelectSeq([i \in 1..Len(results) |-> i], unsupported)
    IN  [k \in 1..Len(positions) |-> claims[positions[k]]]

\* C2: when verify_draft returns for a claim list of length N it returns
\* exactly N results, result i is about claim i, and flagged_claims is the
\* sequence, in input order, of the claims whose result is unsupported.
C2_OneResultPerClaim ==
    pc = "guardrails" =>
        LET out == state.fact_checker_output
            claims == state.writer_output.claims
        IN  /\ Len(out.fact_check_results) = Len(claims)
            /\ \A i \in 1..Len(claims) : out.fact_check_results[i].claim = claims[i]
            /\ out.flagged_claims = unsupported_claims(out.fact_check_results, claims)
\* verify_draft returned with some claims flagged and some not
C2_Witness ==
    /\ pc = "guardrails"
    /\ Len(state.writer_output.claims) >= 2
    /\ state.fact_checker_output.flagged_claims /= <<>>
    /\ Len(state.fact_checker_output.flagged_claims) < Len(state.writer_output.claims)

C4_EmptyRetrievalUnsupported ==
    /\ \A i \in 1..Len(fact_check_results) :
          retrieved[i] = <<>> =>
              /\ fact_check_results[i] =
                    [claim |-> state.writer_output.claims[i], is_supported |-> FALSE,
                     citation |-> None, explanation |-> NO_SOURCE_FOUND]
              /\ ClaimCall("llm", i) \notin Range(calls)
    /\ (pc = "guardrails" /\ \A i \in 1..Len(retrieved) : retrieved[i] = <<>>) =>
          /\ \A i \in 1..Len(state.fact_checker_output.fact_check_results) :
                ~state.fact_checker_output.fact_check_results[i].is_supported
          /\ state.fact_checker_output.all_citations = <<>>
          /\ state.fact_checker_output.flagged_claims = state.writer_output.claims
\* verify_draft returned for two or more claims, nothing retrieved for any
C4_Witness ==
    /\ pc = "guardrails"
    /\ Len(state.writer_output.claims) >= 2
    /\ Len(retrieved) = Len(state.writer_output.claims)
    /\ \A i \in 1..Len(retrieved) : retrieved[i] = <<>>

\* C5: a result has a citation exactly when it is supported, and the
\* citation's doc_id and section_id are those of the first retrieved
\* passage's metadata, "unknown" when the key is absent.
C5_CitationFromFirstPassage ==
    \A i \in 1..Len(fact_check_results) :
        LET result == fact_check_results[i]
        IN  /\ (result.citation /= None) <=> result.is_supported
            /\ result.citation /= None =>
                  LET metadata == retrieved[i][1].metadata
                  IN  /\ result.citation.doc_id =
                            (IF "doc_id" \in DOMAIN metadata
                             THEN metadata["doc_id"] ELSE "unknown")
                      /\ result.citation.section_id =
                            (IF "section_id" \in DOMAIN metadata
                             THEN metadata["section_id"] ELSE "unknown")
\* a supported claim with three passages retrieved, the first without ids
C5_Witness ==
    \E i \in 1..Len(fact_check_results) :
        /\ fact_check_results[i].citation /= None
        /\ Len(retrieved[i]) = 3
        /\ fact_check_results[i].citation.doc_id = "unknown"
        /\ \E j \in 2..3 : "doc_id" \in DOMAIN retrieved[i][j].metadata

\* C6: _parse_fact_check_response reports is_supported = true exactly when
\* the upper-cased response (contains SUPPORTED and not NOT_SUPPORTED) or
\* contains PARTIALLY_SUPPORTED; so both PARTIALLY_SUPPORTED and
\* NOT_SUPPORTED gives supported, and none of the three tokens unsupported.
C6_VerdictRule ==
    fn_result /= None =>
        LET response_upper == upper(fn_call.response)
            has_supported == contains(response_upper, TOK_SUPPORTED)
            has_not == contains(response_upper, TOK_NOT_SUPPORTED)
            has_partially == contains(response_upper, TOK_PARTIALLY_SUPPORTED)
            is_supported == fn_result.returned[1]
        IN  /\ is_supported <=> ((has_supported /\ ~has_not) \/ has_partially)
            /\ (has_partially /\ has_not) => is_supported
            /\ (~has_supported /\ ~has_not /\ ~has_partially) => ~is_supported
\* a response with both PARTIALLY_SUPPORTED and NOT_SUPPORTED, not all in
\* upper case, was parsed as supported
C6_Witness ==
    /\ fn_result /= None
    /\ contains(upper(fn_call.response), TOK_PARTIALLY_SUPPORTED)
    /\ contains(upper(fn_call.response), TOK_NOT_SUPPORTED)
    /\ ~contains(fn_call.response, TOK_NOT_SUPPORTED)
    /\ fn_result.returned[1]

\* C7: the excerpt of a fact-check citation is the first 150 characters of
\* the first passage plus "..." when the passage is longer than 150
\* characters, and the passage unmodified when it is 150 characters or
\* shorter.
C7_ExcerptUnmodifiedWhenShort ==
    \A i \in 1..Len(fact_check_results) :
        fact_check_results[i].citation /= None =>
            LET content == retrieved[i][1].page_content
            IN  fact_check_results[i].citation.excerpt =
                    IF Len(content) > 150
                    THEN SubSeq(content, 1, 150) \o <<".", ".", ".">>
                    ELSE content

\* C8: prepare_context_with_markers returns one citation per document, in
\* document order, with the excerpt cut to 150 characters plus "..." when
\* the content is longer than 150 and the content itself when its length
\* is at most 150, exactly 150 included.
C8_TrackerCitations ==
    fn_result /= None =>
        LET documents == fn_call.documents
            citations == fn_result.returned[2]
        IN  /\ Len(citations) = Len(documents)
            /\ \A i \in 1..Len(documents) :
                  LET content == documents[i].page_content
                      metadata == documents[i].metadata
                  IN  /\ citations[i].excerpt =
                            IF Len(content) > 150
                            THEN SubSeq(content, 1, 150) \o <<".", ".", ".">>
                            ELSE content
                      /\ citations[i].doc_id =
                            (IF "doc_id" \in DOMAIN metadata
                             THEN metadata["doc_id"] ELSE "unknown")
\* citations were built for a list holding a passage of exactly 150
\* characters after a longer one
C8_Witness ==
    /\ fn_result /= None
    /\ \E i, j \in 1..Len(fn_call.documents) :
          /\ i < j
          /\ Len(fn_call.documents[i].page_content) > 150
          /\ Len(fn_call.documents[j].page_content) = 150
          /\ fn_result.returned[2][j].excerpt = fn_call.documents[j].page_content

\* the response holds one of the three markers of the tone prompt
has_marker(response) ==
    \/ contains(response, MARK_EDITED_DRAFT)
    \/ contains(response, MARK_TONE_SUGGESTIONS)
    \/ contains(response, MARK_SAFETY_STATUS)

\* C9: for a response without any of the markers EDITED_DRAFT:,
\* TONE_SUGGESTIONS: and SAFETY_DISCLAIMER_STATUS:, edit_for_tone returns
\* the input draft, no suggestions and safety_disclaimer_added = false.
C9_NoMarkersKeepsDraft ==
    (fn_result /= None /\ ~has_marker(fn_call.response)) =>
        fn_result.returned =
            [final_draft |-> fn_call.draft, tone_suggestions |-> <<>>,
             safety_disclaimer_added |-> FALSE]
\* a marker-free response that still holds the word MISSING and a bullet
\* line was parsed for a non-empty draft
C9_Witness ==
    /\ fn_result /= None
    /\ ~has_marker(fn_call.response)
    /\ contains(fn_call.response, STATUS_MISSING)
    /\ contains(fn_call.response, <<"\n", "-">>)
    /\ fn_call.draft /= <<>>
    /\ fn_result.returned.final_draft = fn_call.draft

\* C10: for every non-empty input draft and every response, the
\* final_draft returned by edit_for_tone is non-empty.
C10_FinalDraftNeverEmpty ==
    (fn_result /= None /\ fn_call.draft /= <<>>) =>
        fn_result.returned.final_draft /= <<>>

STATUS_NEEDS_IMPROVEMENT == <<"N", "E", "E", "D", "S", "_", "I", "M", "P", "R", "O", "V", "E", "M", "E", "N", "T">>

\* C11: in edit_for_tone, a parsed status containing MISSING appends the
\* fixed disclaimer to the parsed draft and sets safety_disclaimer_added;
\* any other status leaves the parsed draft as it is and sets the flag exactly
\* when the status contains PRESENT; the status NEEDS_IMPROVEMENT gives
\* safety_disclaimer_added = false and an unchanged draft.
C11_DisclaimerByStatus ==
    fn_result /= None =>
        LET parsed == parse_editor_response(fn_call.response, fn_call.draft)
            output == fn_result.returned
        IN  /\ contains(parsed[3], STATUS_MISSING) =>
                /\ output.final_draft = parsed[1] \o disclaimer
                /\ output.safety_disclaimer_added
            /\ ~contains(parsed[3], STATUS_MISSING) =>
                /\ output.final_draft = parsed[1]
                /\ output.safety_disclaimer_added <=> contains(parsed[3], STATUS_PRESENT)
            /\ parsed[3] = STATUS_NEEDS_IMPROVEMENT =>
                /\ output.final_draft = parsed[1]
                /\ ~output.safety_disclaimer_added
\* the status MISSING came with an edited draft, and the disclaimer was put
\* after that edited draft
C11_Witness ==
    /\ fn_result /= None
    /\ LET parsed == parse_editor_response(fn_call.response, fn_call.draft)
       IN  /\ parsed[3] = STATUS_MISSING
           /\ parsed[1] /= <<>>
           /\ parsed[1] /= fn_call.draft
           /\ fn_result.returned.final_draft = parsed[1] \o disclaimer
           /\ fn_result.returned.safety_disclaimer_added


\* C12: whenever the output of edit_for_tone has safety_disclaimer_added =
\* true, its final_draft is at least as long as the fixed disclaimer text.
C12_AddedMeansDisclaimerLength ==
    (fn_result /= None /\ fn_result.returned.safety_disclaimer_added) =>
        Len(fn_result.returned.final_draft) >= Len(disclaimer)


\* C13: for a response of n blocks, each a SECTION: line with a non-empty
\* heading followed by its bullet lines, and then one KEY_TOPICS: line,
\* _parse_outline returns exactly n sections in source order, each with its
\* heading and its own bullets in order, and key_topics equal to the trimmed
\* comma-split of the KEY_TOPICS text; parsing the response a second time
\* gives the same result.
C13_WellFormedOutline ==
    (fn_result /= None /\ fn_call.fn = "_parse_outline") =>
        LET blocks == fn_call.blocks
            pieces == split(strip(fn_call.topics_text), <<",">>)
            sections == fn_result.returned[1]
        IN  /\ Len(sections) = Len(blocks)
            /\ \A i \in 1..Len(blocks) :
                /\ sections[i].heading = blocks[i].heading
                /\ Len(sections[i].key_points) = Len(blocks[i].bullets)
                /\ \A j \in 1..Len(blocks[i].bullets) :
                    sections[i].key_points[j] = blocks[i].bullets[j].text
            /\ fn_result.returned[2] = [i \in 1..Len(pieces) |-> strip(pieces[i])]
            /\ "again" \in DOMAIN fn_result => fn_result.again = fn_result.returned
\* a response of three blocks with an empty line after each, two of them
\* different and with bullets, was parsed twice
C13_Witness ==
    /\ fn_result /= None
    /\ fn_call.fn = "_parse_outline"
    /\ "again" \in DOMAIN fn_result
    /\ Len(fn_call.blocks) = 3
    /\ fn_call.gap /= <<>>
    /\ fn_call.blocks[1] /= fn_call.blocks[2]
    /\ fn_call.blocks[1].bullets /= <<>>
    /\ fn_call.blocks[2].bullets /= <<>>
    /\ Len(fn_result.returned[1]) = 3
    /\ Len(fn_result.returned[2]) = 3


\* the segments of the draft between periods
segments(draft) == split(draft, <<".">>)
\* the positions of the segments that are non-empty after trimming and hold
\* one of the eight indicators, letter case ignored
claim_positions(draft) ==
    LET segs == segments(draft)
        qualifies(segment) ==
            /\ strip(segment) /= <<>>
            /\ LET lowered == lower(segment)
               IN  \E indicator \in Range(claim_indicators) :
                       contains(lowered, lower(indicator))
    IN  {i \in 1..Len(segs) : qualifies(segs[i])}
\* the k-th smallest member of a set of positions
kth_position(positions, k) ==
    CHOOSE i \in positions : Cardinality({j \in positions : j < i}) = k - 1

ExampleClaim ==
    <<"A", "s", "h", "w", "a", "g", "a", "n", "d", "h", "a", " ", "h", "e", "l", "p", "s", " ",
      "w", "i", "t", "h", " ", "s", "t", "r", "e", "s", "s", ".">>

\* C14: _extract_claims returns exactly the first (at most 10), in draft
\* order, of the '.'-delimited segments that are non-empty after trimming and
\* contain, case-insensitively, one of the eight indicators, each once and
\* as the trimmed segment followed by '.'; "Ashwagandha helps with stress.
\* The sky is blue." gives ["Ashwagandha helps with stress."].
C14_ExtractClaims ==
    (fn_result /= None /\ fn_call.fn = "_extract_claims") =>
        LET claims == fn_result.returned
            segs == segments(fn_call.draft)
            positions == claim_positions(fn_call.draft)
        IN  /\ Len(claims) = Min(10, Cardinality(positions))
            /\ \A k \in 1..Len(claims) :
                claims[k] = strip(segs[kth_position(positions, k)]) \o <<".">>
            /\ fn_call.draft = SentExample =>
                claims = <<ExampleClaim>>
\* a draft with more than ten qualifying segments, the first of them behind a
\* segment that does not qualify, gave ten claims
C14_Witness ==
    /\ fn_result /= None
    /\ fn_call.fn = "_extract_claims"
    /\ Cardinality(claim_positions(fn_call.draft)) > 10
    /\ 1 \notin claim_positions(fn_call.draft)
    /\ Len(fn_result.returned) = 10


\* thread t makes its direct call on the retriever in this step
calls_retriever(t) == threads[t] = Idle /\ threads'[t] /= Idle

SingletonClasses == {"KeralaAyurvedaRetriever", "QAChain", "ArticleGenerationWorkflow"}
constructed(class) == {r \in DOMAIN heap : r.class = class}
\* the instances that callers of a getter have received so far
received(class) ==
    {threads[t].returned : t \in {u \in Threads : threads[u].returned /= None
                                                  /\ threads[u].returned.class = class}}

\* C19: for any sequence and any interleaving of calls of get_retriever
\* (likewise get_workflow and get_qa_chain) by concurrent request handlers,
\* the object is constructed at most once per process, every caller receives
\* that same instance, and once set the module-level instance is never
\* replaced or reset.
C19_SingleInstance ==
    [][/\ \A class \in SingletonClasses :
             /\ Cardinality(constructed(class)') <= 1
             /\ Cardinality(received(class)') <= 1
       /\ retriever_instance /= None => retriever_instance' = retriever_instance
       /\ qa_chain_instance /= None => qa_chain_instance' = qa_chain_instance
       /\ workflow_instance /= None => workflow_instance' = workflow_instance]_vars

\* thread t returns from get_retriever in this step
returns_from_get_retriever(t) ==
    /\ at(t, "get_retriever", "return")
    /\ threads'[t] /= threads[t]

\* C20: every call of get_retriever that returns yields an initialized
\* retriever, one on which retrieve does not raise the not-initialized error;
\* this includes calls made after an earlier call raised inside
\* initialize_vectorstore and calls made while another caller's
\* initialization is still in progress.
C20_ReturnsInitialized ==
    [][\A t \in Threads :
          returns_from_get_retriever(t) =>
              retrieve(heap'[threads'[t].returned], None) /= RetrieverNotInitialized]_vars

\* the endpoint has answered the request with an HTTP 500
request_failed == http_response /= None /\ http_response.status_code = 500
\* str(e) of the exception raised by the external call `last` of stage `stage`
exception_string(stage, last) ==
    CASE last.op = "retrieve" -> "retrieval error"
      [] last.op = "llm" /\ last.claim > 0 -> "fact-check model error"
      [] last.op = "llm" /\ stage = "create_outline" -> "outline model error"
      [] last.op = "llm" /\ stage = "generate_draft" -> "writer model error"
      [] last.op = "llm" /\ stage = "edit_for_tone" -> "tone model error"
\* the state in which a run has failed: the call that raised is the last one
\* made, its stage has not returned, no claim after the current one was
\* looked at, there is no ArticleResponse, and the HTTP 500 carries str(e)
failed_run ==
    LET last == calls[Len(calls)]
        stage == stages_invoked[Len(stages_invoked)]
    IN  /\ pc = "failed"
        /\ article_response = None
        /\ last.op \in {"llm", "retrieve"}
        /\ ~stage_returned(Len(stages_invoked))
        /\ last.claim > 0 =>
              /\ last.claim = claim_index
              /\ \A j \in 1..Len(calls) : calls[j].claim <= last.claim
        /\ http_response =
              [status_code |-> 500,
               detail |-> <<"Error generating article: ", exception_string(stage, last)>>]

positions_of(entry) == {j \in 1..Len(calls) : calls[j] = entry}
\* the stages that make one LLM call of their own
LLMStages == {"create_outline", "generate_draft", "edit_for_tone"}
\* every stage call is made once and is followed at once by its one LLM call
one_llm_call_per_stage ==
    /\ \A stage \in LLMStages :
          /\ Cardinality(positions_of(Call(stage))) <= 1
          /\ \A j \in positions_of(Call(stage)) :
                j < Len(calls) /\ calls[j + 1] = Call("llm")
    /\ Cardinality(positions_of(Call("llm"))) =
          Cardinality({j \in 1..Len(calls) : calls[j].op \in LLMStages})
\* claim i: one retrieval of at most k=3 passages, then one classification
\* exactly when the retrieval returned something
one_retrieval_per_claim(i) ==
    LET retrievals == positions_of(ClaimCall("retrieve", i))
        classifications == positions_of(ClaimCall("llm", i))
        found == i <= Len(retrieved) /\ retrieved[i] /= <<>>
    IN  /\ Cardinality(retrievals) = 1
        /\ Cardinality(classifications) = IF found THEN 1 ELSE 0
        /\ \A j \in classifications : j - 1 \in retrievals
        /\ i <= Len(retrieved) => Len(retrieved[i]) <= FactCheckK
\* the claims whose verification has been started
claims_started == {calls[j].claim : j \in 1..Len(calls)} \ {0}
\* the calls made for the claims are in claim order, without gaps
claims_in_order ==
    /\ \A a, b \in 1..Len(calls) :
          a < b /\ calls[a].claim > 0 /\ calls[b].claim > 0 => calls[a].claim <= calls[b].claim
    /\ \A i \in claims_started : \A h \in 1..i : h \in claims_started
\* this step makes the retrieval for claim i
retrieval_starts(i) ==
    /\ ClaimCall("retrieve", i) \notin Range(calls)
    /\ ClaimCall("retrieve", i) \in Range(calls')

\* C17: in one generate_article run the outline, writer and tone stages make
\* one LLM call each; each claim gets exactly one retrieval (k=3) and at
\* most one classification call, exactly one iff the retrieval was not
\* empty; nothing is retried; and the retrieval for a claim starts only when
\* the results of all earlier claims are complete.
C17_EachCallOnce ==
    [][/\ one_llm_call_per_stage'
       /\ claims_in_order'
       /\ \A i \in claims_started' : one_retrieval_per_claim(i)'
       /\ \A i \in 1..MaxClaims :
             retrieval_starts(i) => claim_index = i /\ Len(fact_check_results) = i - 1]_vars
\* a finished run over three claims in which one retrieval came back empty
\* and another did not
C17_Witness ==
    /\ pc = "done"
    /\ claims_started = 1..3
    /\ \E i, j \in 1..3 : retrieved[i] = <<>> /\ retrieved[j] /= <<>>
    /\ Cardinality(positions_of(Call("llm"))) = 3

\* the invocations that have built their AgentState
Invocations == {t \in Handlers : threads[t].state /= None}
\* what generate_article computes from one brief and one set of answers
own_state(brief, answers) ==
    LET writer_output == WriterOutput(answers.draft, extract_claims(answers.draft))
        fact_checker_output ==
            verify_draft(writer_output.draft, writer_output.claims, answers.verdicts)
    IN  [AgentState(brief) EXCEPT
            !.outline = create_outline(answers.outline),
            !.writer_output = writer_output,
            !.fact_checker_output = fact_checker_output,
            !.tone_editor_output =
                edit_for_tone(fact_checker_output.verified_draft, answers.tone)]
own_response(brief, answers) ==
    LET st == own_state(brief, answers)
    IN  ArticleResponse(st, check_guardrails(st.writer_output.draft,
                                             st.fact_checker_output.flagged_claims))
\* every object an invocation reads or writes was created by it, and by it alone
only_own_accesses ==
    \A e \in store_log : \A c \in store_log :
        c.kind = "create" /\ c.object = e.object => c.by = e.by
\* this step changes no AgentState but the one of the thread that takes it,
\* and leaves the workflow object as it was
writes_own_state_only ==
    \A r \in DOMAIN heap :
        heap'[r] /= heap[r] =>
            \E t \in Invocations : threads'[t] /= threads[t] /\ threads[t].state = r

\* C18: with several generate_article calls running at once on the one
\* workflow instance, under every interleaving of their steps, each call
\* has an AgentState of its own that only it creates, reads and writes,
\* and the ArticleResponse it returns is the one computed from its own
\* brief and the answers given to it.
C18_StateOwnedByInvocation ==
    [][/\ only_own_accesses'
       /\ writes_own_state_only
       /\ \A t, u \in Invocations' : t /= u => threads'[t].state /= threads'[u].state
       /\ \A t \in Invocations :
             threads'[t].response /= threads[t].response =>
                 threads'[t].response = own_response(threads[t].brief, threads[t].answers)]_vars
\* two calls with different briefs and different drafts, the second
\* having passed the first, both answered
C18_Witness ==
    /\ \A t \in 1..2 : threads[t].at = "done" /\ threads[t].response /= None
    /\ threads[1].brief /= threads[2].brief
    /\ threads[1].answers.draft /= threads[2].answers.draft
    /\ threads[1].response /= threads[2].response
    /\ access(threads[1].state, 1, "write") \in store_log
    /\ access(threads[2].state, 2, "write") \in store_log

GuardrailPassed == [passed |-> TRUE, issues |-> <<>>]

\* C22: the guardrail check only reports. The step after verify_draft
\* computes the check from the draft and the flagged claims, changes nothing
\* else and goes on to the tone stage whether the check passed or not; the
\* tone stage and the response are then available as for a passed check,
\* and the check's result is found in the response only at
\* workflow_metadata.fact_checking.guardrail_check.
C22_GuardrailOnlyReports ==
    [][/\ pc = "guardrails" =>
             /\ pc' = "tone"
             /\ guardrail_check' = check_guardrails(state.writer_output.draft,
                                                    state.fact_checker_output.flagged_claims)
             /\ UNCHANGED <<state, calls, article_response, http_response>>
       /\ pc = "tone" => ENABLED EditForTone
       /\ pc = "respond" => ENABLED BuildResponse
       /\ pc \in {"tone", "respond"} => guardrail_check' = guardrail_check
       /\ article_response' /= None =>
             article_response' =
                [ArticleResponse(state', GuardrailPassed) EXCEPT
                    !.workflow_metadata.fact_checking.guardrail_check = guardrail_check']]_vars
\* a run whose guardrail check failed and which returned its ArticleResponse
C22_Witness ==
    /\ pc = "done"
    /\ article_response /= None
    /\ ~guardrail_check.passed
    /\ article_response.workflow_metadata.fact_checking.guardrail_check = guardrail_check
    /\ Call("edit_for_tone") \in Range(calls)

\* the 1-based positions i whose marker "[SOURCE_i]" or "Source i" occurs in
\* the answer
cited_positions(answer, available) ==
    {i \in 1..Len(available) :
        \/ contains(answer, <<"[", "S", "O", "U", "R", "C", "E", "_">> \o str_int(i) \o <<"]">>)
        \/ contains(answer, <<"S", "o", "u", "r", "c", "e", " ">> \o str_int(i))}

\* C23: extract_citations_from_answer returns, in the original order, the
\* available citations at the positions i whose marker "[SOURCE_i]" or
\* "Source i" occurs in the answer, and all available citations when no
\* marker occurs; the result is not empty when the available list is not.
C23_ExtractCitations ==
    (fn_result /= None /\ fn_call.fn = "extract_citations_from_answer") =>
        LET used == fn_result.returned
            available == fn_call.available_citations
            positions == cited_positions(fn_call.answer, available)
        IN  /\ positions = {} => used = available
            /\ positions /= {} =>
                  /\ Len(used) = Cardinality(positions)
                  /\ \A k \in 1..Len(used) : used[k] = available[kth_position(positions, k)]
            /\ available /= <<>> => used /= <<>>
\* an answer that mentions the second and third of three different
\* citations, one by "Source 2" and one by "[SOURCE_3]", gave those two
C23_Witness ==
    /\ fn_result /= None
    /\ fn_call.fn = "extract_citations_from_answer"
    /\ fn_call.answer = AnsMentionTwo \o AnsMarkerThree
    /\ fn_call.available_citations = <<CitationTulsi, CitationDosage, CitationTulsi>>
    /\ fn_result.returned = <<CitationDosage, CitationTulsi>>

\* what a line of the response is, after trimming
is_section_line(raw) == startswith(strip(raw), MARK_SECTION)
is_topics_line(raw) == ~is_section_line(raw) /\ startswith(strip(raw), MARK_KEY_TOPICS)
is_bullet_line(raw) ==
    /\ ~is_section_line(raw) /\ ~is_topics_line(raw)
    /\ startswith(strip(raw), <<"-">>) \/ startswith(strip(raw), <<"BULLET">>)
section_lines(lines) == {p \in 1..Len(lines) : is_section_line(lines[p])}
\* the position of the last SECTION: line before position p, 0 if there is none
section_before(lines, p) ==
    LET earlier == {q \in section_lines(lines) : q < p}
    IN  IF earlier = {} THEN 0 ELSE CHOOSE q \in earlier : \A r \in earlier : r <= q
\* a KEY_TOPICS: line lies between the bullet at p and the SECTION: line before it
behind_topics(lines, p) ==
    \E q \in (section_before(lines, p) + 1)..(p - 1) : is_topics_line(lines[q])
\* the number of key points of all returned sections together
points_returned(sections) ==
    Cardinality({<<k, j>> \in (1..Len(sections)) \X (1..MaxLines + 1) :
                    j <= Len(sections[k].key_points)})
parsed_lines == fn_result /= None /\ fn_call.fn = "_parse_outline" /\ "lines" \in DOMAIN fn_call

\* C24: bullet lines count as key points of the current section only until
\* the next SECTION: line or a KEY_TOPICS: line; a bullet line behind a
\* KEY_TOPICS: line, with no SECTION: line in between, is in no section's
\* key_points. (Stated for responses whose SECTION: lines all have a heading.)
C24_BulletsEndAtKeyTopics ==
    (parsed_lines /\ \A p \in section_lines(fn_call.lines) :
                        strip(remove_all(strip(fn_call.lines[p]), MARK_SECTION)) /= <<>>) =>
        LET lines == fn_call.lines
            counted == {p \in 1..Len(lines) :
                           /\ is_bullet_line(lines[p])
                           /\ section_before(lines, p) > 0
                           /\ ~behind_topics(lines, p)}
        IN  points_returned(fn_result.returned[1]) = Cardinality(counted)

\* C25: every line that after trimming starts with "SECTION:" opens a section
\* of the output: there are as many sections as such lines, empty headings
\* included, in source order, and the bullets up to the next such line are
\* the section's key points.
C25_SectionPerSectionLine ==
    parsed_lines =>
        LET lines == fn_call.lines
            opened == section_lines(lines)
            sections == fn_result.returned[1]
        IN  /\ Len(sections) = Cardinality(opened)
            /\ \A k \in 1..Len(sections) :
                  LET p == kth_position(opened, k)
                      bullets == {q \in 1..Len(lines) :
                                     is_bullet_line(lines[q]) /\ section_before(lines, q) = p}
                  IN  /\ sections[k].heading = strip(remove_all(strip(lines[p]), MARK_SECTION))
                      /\ Len(sections[k].key_points) = Cardinality(bullets)

\* lines that _parse_outline passes over: empty after trimming, or starting
\* with none of the recognised prefixes
IgnoredLines == {<<>>, <<" ", " ">>, LineNote}
is_ignored_line(raw) ==
    \/ strip(raw) = <<>>
    \/ ~is_section_line(raw) /\ ~is_topics_line(raw) /\ ~is_bullet_line(raw)
\* lines with `extra` put in behind the first p lines, and lines without line p
inserted(lines, p, extra) == SubSeq(lines, 1, p) \o <<extra>> \o SubSeq(lines, p + 1, Len(lines))
removed(lines, p) == SubSeq(lines, 1, p - 1) \o SubSeq(lines, p + 1, Len(lines))

\* C26: _parse_outline returns a result for every response; putting in or
\* taking out a line that is empty after trimming or starts with none of
\* "SECTION:", "KEY_TOPICS:", '-' and the bullet sign leaves the result as it
\* is; and a response without a SECTION: line gives an empty section list,
\* its bullets discarded.
C26_IgnoredLinesChangeNothing ==
    parsed_lines =>
        LET lines == fn_call.lines
            result == fn_result.returned
        IN  /\ \A extra \in IgnoredLines :
                  /\ is_ignored_line(extra)
                  /\ \A p \in 0..Len(lines) :
                        parse_outline(join(<<"\n">>, inserted(lines, p, extra))) = result
            /\ \A p \in 1..Len(lines) :
                  (is_ignored_line(lines[p]) /\ Len(lines) > 1) =>
                      parse_outline(join(<<"\n">>, removed(lines, p))) = result
            /\ section_lines(lines) = {} => result[1] = <<>>
\* a response with a note between a section line and its bullet, and one with
\* bullets and topics but no SECTION: line
C26_Witness ==
    /\ parsed_lines
    /\ \/ /\ fn_call.lines = <<LineSectionIntro, LineNote, LineBulletPoint>>
          /\ Len(fn_result.returned[1]) = 1
          /\ Len(fn_result.returned[1][1].key_points) = 1
       \/ /\ fn_call.lines = <<LineDashPoint, LineTopics, LineBulletPoint>>
          /\ fn_result.returned[1] = <<>>

\* C27: every claim _extract_claims returns is a contiguous piece of the
\* draft it was given, also when the draft's last sentence has no closing
\* period, and at most 10 claims are returned.
C27_ClaimsAreSubstrings ==
    (fn_result /= None /\ fn_call.fn = "_extract_claims") =>
        /\ Len(fn_result.returned) <= 10
        /\ \A k \in 1..Len(fn_result.returned) :
              contains(fn_call.draft, fn_result.returned[k])

\* C28: in a fact-check pass every claim gives either one citation (it is
\* supported) or one flagged entry (it is not), never both and never
\* neither: the citations and the flagged claims together are as many as the
\* claims looked at, and the response reports supported_claims +
\* len(flagged_claims) = total_claims with as many citations as supported
\* claims.
C28_CitedOrFlagged ==
    /\ Len(all_citations) + Len(flagged_claims) = Len(fact_check_results)
    /\ \A i \in 1..Len(fact_check_results) :
          (fact_check_results[i].citation /= None) <=> fact_check_results[i].is_supported
    /\ (state /= None /\ state.fact_checker_output /= None) =>
          LET out == state.fact_checker_output
          IN  Len(out.all_citations) + Len(out.flagged_claims) = Len(state.writer_output.claims)
    /\ article_response /= None =>
          LET fc == article_response.workflow_metadata.fact_checking
          IN  /\ fc.supported_claims + Len(fc.flagged_claims) = fc.total_claims
              /\ Len(article_response.citations) = fc.supported_claims
\* a response over three claims, two of them supported from the same
\* passage and one flagged
C28_Witness ==
    /\ article_response /= None
    /\ article_response.workflow_metadata.fact_checking.total_claims = 3
    /\ Len(article_response.citations) = 2
    /\ article_response.citations[1] = article_response.citations[2]
    /\ Len(article_response.workflow_metadata.fact_checking.flagged_claims) = 1

\* the guardrail result of the run, from the writer's draft and the flagged
\* claims alone
guardrails_of_draft ==
    check_guardrails(state.writer_output.draft, state.fact_checker_output.flagged_claims)

\* C29: the guardrail_check in workflow_metadata is a function of the
\* writer's draft and of the fact-checker's flagged_claims only. It is
\* computed before the tone stage is invoked and not changed afterwards, so
\* runs that differ only in the tone editor's response report the same
\* guardrail_check, whatever the final draft says.
C29_GuardrailIgnoresTone ==
    [][/\ guardrail_check' /= guardrail_check =>
             /\ guardrail_check = None
             /\ guardrail_check' = guardrails_of_draft
             /\ Call("edit_for_tone") \notin Range(calls')
             /\ state' = state
       /\ guardrail_check /= None =>
             /\ guardrail_check' = guardrail_check
             /\ state'.writer_output = state.writer_output
             /\ state'.fact_checker_output = state.fact_checker_output
       /\ Call("edit_for_tone") \in Range(calls') => guardrail_check' /= None
       /\ article_response' /= article_response =>
             article_response'.workflow_metadata.fact_checking.guardrail_check =
                guardrail_check]_vars
\* a response whose final draft would not get the guardrail result that is
\* reported for the writer's draft
C29_Witness ==
    /\ article_response /= None
    /\ state.tone_editor_output.final_draft /= state.writer_output.draft
    /\ check_guardrails(article_response.final_draft,
                        state.fact_checker_output.flagged_claims)
          /= article_response.workflow_metadata.fact_checking.guardrail_check

\* C30: for a response "VERDICT: <token>\nEXPLANATION: <text>" is_supported
\* follows from the token alone: SUPPORTED and PARTIALLY_SUPPORTED give
\* true, NOT_SUPPORTED gives false, whatever the explanation says.
C30_VerdictTokenDecides ==
    (fn_result /= None /\ "token" \in DOMAIN fn_call) =>
        (fn_result.returned[1] <=> fn_call.token \in {TOK_SUPPORTED, TOK_PARTIALLY_SUPPORTED})
====
